---- MODULE Spec2Model ----
(***************************************************************************)
(* TuneFree Mobile: the playback controller (contexts/PlayerContext.tsx)    *)
(* and the method-descriptor executor with its provider fallbacks           *)
(* (services/api.ts, found in src/components/MiniPlayer.tsx lines 196-1186).*)
(*                                                                         *)
(* The specifications of the module:                                       *)
(*   SpecPlayer  the player state machine: playSong with its awaited parse, *)
(*               the audio element's events, the ref-sync effects, over     *)
(*               tracks with distinct ids;                                  *)
(*   SpecSameId  the same machine over two tracks that share an id;         *)
(*   SpecLibrary the queue and favorites operations;                        *)
(*   SpecApi     one call of searchSongs, getTopLists, getTopListDetail or  *)
(*               fetchFallbackLyrics at a time: descriptor fetch, proxy     *)
(*               loop, fallback dispatch, fallback loops, cover backfill   *)
(*               (lyric calls for qq only);                                *)
(*   SpecLyrics  fetchFallbackLyrics for the three providers.              *)
(***************************************************************************)
EXTENDS Integers, Sequences, FiniteSets, Bags, TLC

VARIABLES
    \* ---- PlayerProvider state (PlayerContext.tsx 44-71) ----
    currentSong,      \* useState currentSong
    currentSongRef,   \* currentSongRef.current
    queue,            \* useState queue
    isPlaying,        \* useState isPlaying
    isLoading,        \* useState isLoading
    audioQuality,     \* useState audioQuality
    audioQualityRef,  \* audioQualityRef.current
    retryCount,       \* retryCountRef.current
    audio,            \* audioRef.current: the HTMLAudioElement
    audioCtx,         \* audioCtxRef.current # null (= audioCtxConnectedRef.current)
    pending,          \* bag of the playSong invocations suspended at `await parseSongFull`
    favorites,        \* LibraryProvider useState favorites
    userActions,      \* history: how many times the user has acted on the player
    autoRetries,      \* history: automatic 128k retries since the last user selection
    playMode,         \* useState playMode (= playModeRef.current)
    requested,        \* history: the latest parse request of playSong, and whether its URL came
    ev,               \* history: what the last player step did
    \* ---- one orchestration call of services/api.ts ----
    storedProxy,      \* localStorage 'tunefree_cors_proxy' ("" = not set)
    op,               \* the call in progress
    reqLog,           \* history: the network requests the call has issued
    attempts,         \* history: what each proxy attempt of executeMethod ended in
    kuwoChartPic,     \* KUWO_POPULAR_CHARTS[0].pic
    lyricsCache,      \* _lyricsCache: Map from `lrc:<source>:<id>` to the text
    lyricsDone,       \* history: the text fetchFallbackLyrics first returned per (source, id)
    \* ---- the parse functions of services/api.ts ----
    parseCache,       \* _parseCache: Map from `<platform>:<id>:<quality>` to {data, timestamp}
    now,              \* Date.now()
    calls,            \* the invocations of the parse functions, one per slot
    started,          \* history: how many invocations there have been
    \* ---- searchAggregate ----
    agg,              \* the aggregate search in progress
    \* ---- the pure helpers ----
    applied,          \* the last application of a helper: its input and its result
    \* ---- the Home page (pages/Home.tsx 261-363) ----
    home,             \* its state, fetchIdRef, the two caches, the requests under way
    \* ---- the settings (LibraryContext.tsx 34-60, pages/Library.tsx 30-45) ----
    settings          \* LibraryProvider's three settings, the form's fields, localStorage

varsPlayer == <<currentSong, currentSongRef, queue, isPlaying, isLoading,
                audioQuality, audioQualityRef, retryCount, audio, audioCtx,
                pending, favorites, userActions, autoRetries, playMode, requested, ev>>
varsApi == <<storedProxy, op, reqLog, attempts, kuwoChartPic, lyricsCache, lyricsDone>>
varsParse == <<parseCache, now, calls, started>>
varsAgg == <<agg>>
varsPure == <<applied>>
varsHome == <<home>>
varsSettings == <<settings>>
vars == <<varsPlayer, varsApi, varsParse, varsAgg, varsPure, varsHome, varsSettings>>

(***************************************************************************)
(* Bounds                                                                  *)
(***************************************************************************)
\* playSong invocations suspended at their parse call at the same time
MaxInFlight == 2
\* invocations of the parse functions that can be under way at the same time
MaxCalls == 2
\* invocations of the parse functions in a session
MaxStarts == 3
\* length of a provider's search result
MaxLen == 3
\* the source switches and chart clicks of one visit of the Home page
MaxHomeActions == 2
\* the edits of the settings form and the presses of its save button
MaxEdits == 2
\* taps of the user on the player (track selection, play/pause, quality)
MaxUserActions == 2

(***************************************************************************)
(* Songs, qualities, URLs                                                  *)
(***************************************************************************)
NoSong == [source |-> "", id |-> 0, pic |-> "", lrc |-> ""]
NoUrl == [source |-> "", id |-> 0, q |-> "", host |-> ""]
NoQ == ""
NoRequest == [song |-> NoSong, q |-> NoQ, got |-> FALSE]

\* Two providers may hand out the same id (spec.md section 3): SongA and SongB.
\* SongA comes from a search result (no cover, no lyrics yet); SongB and SongC
\* come from the persisted queue, already carrying a cover and lyrics.
SongA == [source |-> "netease", id |-> 1, pic |-> "", lrc |-> ""]
SongB == [source |-> "kuwo", id |-> 1, pic |-> "b.jpg", lrc |-> "L"]
SongC == [source |-> "netease", id |-> 2, pic |-> "c.jpg", lrc |-> "L"]
\* the tracks the user can pick: with distinct ids, with one id shared, all
Catalog == {SongA, SongC}
SameIdCatalog == {SongA, SongB}
LibraryCatalog == {SongA, SongB, SongC}

LowestQuality == "128k"
Qualities == {"128k", "320k"}

SongKey(s) == <<s.source, s.id>>

\* The stream URL the parse service resolves for a song at a quality.
HostOf(source) == IF source = "kuwo" THEN "sycdn.kuwo.cn" ELSE "m701.music.126.net"
UrlFor(song, q) == [source |-> song.source, id |-> song.id, q |-> q, host |-> HostOf(song.source)]

\* What parseSongFull can resolve to: null, or {url, lrc, pic} with url possibly null.
NoParse == [ok |-> FALSE, url |-> NoUrl, lrc |-> "", pic |-> ""]
ParseResults(song, q) ==
    { NoParse,
      [ok |-> TRUE, url |-> NoUrl, lrc |-> "", pic |-> ""],
      [ok |-> TRUE, url |-> UrlFor(song, q), lrc |-> "L", pic |-> "P"] }

(***************************************************************************)
(* The player state as one record, so that a handler that calls another    *)
(* handler (the error handler calling playSong, playSong calling           *)
(* togglePlay) is the composition of two state transformers.               *)
(***************************************************************************)
St == [currentSong |-> currentSong, currentSongRef |-> currentSongRef,
       queue |-> queue,
       isPlaying |-> isPlaying, isLoading |-> isLoading,
       audioQuality |-> audioQuality, audioQualityRef |-> audioQualityRef,
       retryCount |-> retryCount, audio |-> audio, audioCtx |-> audioCtx,
       pending |-> pending, autoRetries |-> autoRetries,
       playMode |-> playMode, requested |-> requested]

Commit(st) ==
    /\ BagCardinality(st.pending) <= MaxInFlight
    /\ currentSong' = st.currentSong
    /\ currentSongRef' = st.currentSongRef
    /\ queue' = st.queue
    /\ isPlaying' = st.isPlaying
    /\ isLoading' = st.isLoading
    /\ audioQuality' = st.audioQuality
    /\ audioQualityRef' = st.audioQualityRef
    /\ retryCount' = st.retryCount
    /\ audio' = st.audio
    /\ audioCtx' = st.audioCtx
    /\ pending' = st.pending
    /\ autoRetries' = st.autoRetries
    /\ playMode' = st.playMode
    /\ requested' = st.requested

\* the listeners createAudioElement registers on an element (lines 176-181)
Handlers == {"timeupdate", "loadedmetadata", "ended", "error", "waiting", "canplay"}

\* new Audio() with its listeners added: no src, crossOrigin only when
\* withCors, no play() promise pending.  History of the element: binds counts
\* the createMediaElementSource calls made on it, reused says that it had a
\* src before the one it has.  History of the elements before it: stale says
\* that one of them still carries the listeners, leaked that an AudioContext
\* bound to one of them was not closed.
NewAudio(withCors) ==
    [src |-> NoUrl, crossOrigin |-> withCors, state |-> "empty",
     play |-> FALSE, pSong |-> NoSong, pTarget |-> NoQ,
     handlers |-> Handlers, binds |-> 0, reused |-> FALSE,
     stale |-> FALSE, leaked |-> FALSE]

\* audioRef.current.src && audioRef.current.src !== window.location.href
HasSrc(a) == a.src # NoUrl

\* The identity test the player and the library use: s.id === song.id,
\* String(s.id) === String(song.id).  The source is not compared.
SameSongKey(a, b) == a.source = b.source /\ a.id = b.id
SameSong(a, b) == a.id = b.id

\* currentSongRef.current?.id === song.id
IsSameSong(ref, song) == ref # NoSong /\ SameSong(ref, song)

\* setQueue(prev => prev.find(same id) ? prev : [...prev, song])
QueueInsert(q, song) ==
    IF \E i \in DOMAIN q : SameSong(q[i], song) THEN q ELSE Append(q, song)

\* prev.filter(s => String(s.id) !== String(songId))
QueueRemove(q, songId) ==
    LET keep(s) == s.id # songId
    IN SelectSeq(q, keep)

\* togglePlay past its two early exits: pause when playing, else play
togglePlayback(st) ==
    IF st.isPlaying
    THEN [st EXCEPT !.isPlaying = FALSE]
    ELSE [st EXCEPT !.isPlaying = TRUE]

\* playSong up to its await: the same-song toggle, or a new resolution
playSong(st, song, forceQuality) ==
    LET targetQuality == IF forceQuality # NoQ THEN forceQuality ELSE st.audioQualityRef
        isSameSong == IsSameSong(st.currentSongRef, song)
        isDifferentQuality == forceQuality # NoQ /\ forceQuality # st.audioQualityRef
        call == [song |-> song, target |-> targetQuality]
    IN IF isSameSong /\ ~isDifferentQuality /\ forceQuality = NoQ /\ HasSrc(st.audio)
       THEN togglePlayback(st)
       ELSE [st EXCEPT !.isLoading = TRUE,
                       !.retryCount = IF forceQuality = NoQ THEN 0 ELSE @,
                       !.autoRetries = IF forceQuality = NoQ THEN 0 ELSE @,
                       !.requested = [song |-> song, q |-> targetQuality, got |-> FALSE],
                       !.currentSong = song,
                       !.queue = QueueInsert(@, song),
                       !.pending = @ (+) SetToBag({call})]

togglePlay(st) ==
    IF st.currentSongRef = NoSong THEN st
    ELSE IF ~HasSrc(st.audio) THEN playSong(st, st.currentSongRef, NoQ)
    ELSE togglePlayback(st)

\* the rebuild that leaves the old element and its AudioContext as they are
createAudioElement_KeepsOld(st, withCors) ==
    [st EXCEPT !.audio = [NewAudio(withCors) EXCEPT
                             !.stale = st.audio.stale \/ st.audio.handlers # {},
                             !.leaked = st.audio.leaked \/ st.audioCtx],
               !.audioCtx = FALSE]

\* createAudioElement: the old element paused, its src and its six listeners
\* removed; the old AudioContext closed; a fresh element with the listeners
createAudioElement(st, withCors) ==
    LET old == [st.audio EXCEPT !.src = NoUrl, !.handlers = @ \ Handlers]
    IN [st EXCEPT !.audio = [NewAudio(withCors) EXCEPT
                                !.stale = st.audio.stale \/ old.handlers # {},
                                !.leaked = st.audio.leaked],
                  !.audioCtx = FALSE]

\* initAudioContext: binds once; ctxOk = FALSE is the caught failure of
\* new AudioContext(), before createMediaElementSource is reached
initAudioContext(st, ctxOk) ==
    IF st.audioCtx THEN st
    ELSE IF ctxOk THEN [st EXCEPT !.audioCtx = TRUE, !.audio.binds = @ + 1]
    ELSE st

\* !url.includes('kuwo.cn') && !url.includes('sycdn.kuwo')
needsCors(url) == url.host \notin {"kuwo.cn", "sycdn.kuwo.cn", "other.sycdn.kuwo.cn"}

\* the automatic degrade: retryCountRef.current = 1; playSong(song, '128k')
degradeRetry(st, song) ==
    playSong([st EXCEPT !.retryCount = 1, !.autoRetries = IF @ < 2 THEN @ + 1 ELSE @],
             song, LowestQuality)

\* the no-URL test without its quality half
ShouldRetryNoUrl_AnyQuality(targetQuality, retry) == retry = 0

\* playSong's no-URL test: targetQuality !== '128k' && retryCountRef.current === 0
ShouldRetryNoUrl(targetQuality, retry) == targetQuality # LowestQuality /\ retry = 0

\* playSong's else branch: no URL
noUrl(st, c) ==
    IF ShouldRetryNoUrl(c.target, st.retryCount)
    THEN degradeRetry(st, c.song)
    ELSE [st EXCEPT !.isLoading = FALSE, !.isPlaying = FALSE]

\* playSong's url branch: route, set src, load(), play()
startPlayback(st, c, url, ctxOk) ==
    LET routed ==
            IF ~needsCors(url)
            THEN IF st.audioCtx \/ st.audio.crossOrigin
                 THEN createAudioElement(st, FALSE) ELSE st
            ELSE initAudioContext(IF ~st.audioCtx THEN createAudioElement(st, TRUE) ELSE st,
                                  ctxOk)
    IN [routed EXCEPT !.audio.src = url, !.audio.reused = HasSrc(routed.audio),
                      !.audio.state = "loading",
                      !.audio.play = TRUE,
                      !.audio.pSong = c.song, !.audio.pTarget = c.target,
                      !.isPlaying = TRUE, !.isLoading = FALSE]

\* the race check: currentSongRef.current?.id !== song.id
IsStale(ref, song) == ~IsSameSong(ref, song)

\* playSong after its await, for the suspended invocation c
playSongResume(st, c, parsed, ctxOk) ==
    LET st0 == [st EXCEPT !.pending = @ (-) SetToBag({c})]
        patchPic == parsed.ok /\ parsed.pic # "" /\ c.song.pic = ""
        patchLrc == parsed.ok /\ parsed.lrc # ""
        patched(s) == [s EXCEPT !.pic = IF patchPic THEN parsed.pic ELSE @,
                                !.lrc = IF patchLrc THEN parsed.lrc ELSE @]
        st1 == IF patchPic \/ patchLrc
               THEN [st0 EXCEPT
                       !.currentSong = IF @ # NoSong /\ SameSong(@, c.song)
                                       THEN patched(@) ELSE @,
                       !.queue = [k \in DOMAIN @ |->
                                    IF SameSong(@[k], c.song) THEN patched(@[k]) ELSE @[k]]]
               ELSE st0
        \* history: the URL of the latest request has come
        noted == IF c.song = st1.requested.song /\ c.target = st1.requested.q
                 THEN [st1 EXCEPT !.requested.got = TRUE] ELSE st1
    IN IF IsStale(st0.currentSongRef, c.song) THEN st0
       ELSE IF parsed.ok /\ parsed.url # NoUrl
            THEN startPlayback(noted, c, parsed.url, ctxOk)
            ELSE noUrl(st1, c)

\* the audio element's error handler
onAudioError(st) ==
    IF st.currentSongRef # NoSong /\ st.audioQualityRef # LowestQuality /\ st.retryCount = 0
    THEN degradeRetry(st, st.currentSongRef)
    ELSE [st EXCEPT !.isLoading = FALSE, !.isPlaying = FALSE, !.retryCount = 0]

\* the audio element's loadedmetadata handler
onLoadedMetadata(st) == [st EXCEPT !.isLoading = FALSE, !.retryCount = 0]

\* new AudioContext() / createMediaElementSource succeed
CtxOutcomes == {TRUE}

PlayErrors == {"AbortError", "NotSupportedError", "NotAllowedError"}

\* playPromise.catch of the invocation whose play() is pending
onPlayRejected(st, name) ==
    LET song == st.audio.pSong
        targetQuality == st.audio.pTarget
        st0 == [st EXCEPT !.audio.play = FALSE, !.audio.pSong = NoSong, !.audio.pTarget = NoQ]
    IN IF name = "AbortError" THEN st0
       ELSE IF name = "NotSupportedError" /\ st0.retryCount = 0 /\ targetQuality # LowestQuality
            THEN degradeRetry(st0, song)
       ELSE IF name = "NotAllowedError"
            THEN [st0 EXCEPT !.isPlaying = FALSE, !.isLoading = FALSE]
       ELSE st0

\* setAudioQuality: the state is set, and a playing song is re-resolved at q
setAudioQuality(st, q) ==
    LET st0 == [st EXCEPT !.audioQuality = q]
    IN IF st.currentSong # NoSong /\ st.isPlaying
       THEN playSong(st0, st.currentSong, q) ELSE st0

PlayModes == {"sequence", "loop", "shuffle"}

\* togglePlayMode: sequence -> loop -> shuffle -> sequence
togglePlayMode(mode) ==
    IF mode = "sequence" THEN "loop" ELSE IF mode = "loop" THEN "shuffle" ELSE "sequence"

\* q.findIndex(s => String(s.id) === String(c.id)), or -1 (indices from 0)
findIndex(q, c) ==
    IF c # NoSong /\ \E i \in DOMAIN q : SameSong(q[i], c)
    THEN (CHOOSE i \in DOMAIN q :
              SameSong(q[i], c) /\ \A j \in 1..(i - 1) : ~SameSong(q[j], c)) - 1
    ELSE -1

\* the values Math.floor(Math.random() * q.length) can leave in nextIndex when
\* the do-while loop of shuffle mode ends
ShuffleIndices(q, currentIndex) ==
    IF q = <<>> THEN {0}
    ELSE {n \in 0..(Len(q) - 1) : Len(q) > 1 => n # currentIndex}

\* playNext(force): queueRef, currentSongRef and playModeRef are read; rand is
\* the index the shuffle loop ended with.  The loop-mode replay sets
\* currentTime = 0 and calls play() on the element as it is.
playNext(st, force, rand) ==
    LET q == st.queue
        currentIndex == findIndex(q, st.currentSongRef)
        nextIndex == IF st.playMode = "shuffle" THEN rand
                     ELSE (currentIndex + 1) % Len(q)
    IN IF Len(q) = 0 THEN st
       ELSE IF ~force /\ st.playMode = "loop" THEN st
       ELSE playSong(st, q[nextIndex + 1], NoQ)

\* toggleFavorite: setFavorites(prev => prev.find(same id) ? prev.filter(...) : [song, ...prev])
toggleFavorite(favs, song) ==
    IF \E k \in DOMAIN favs : SameSong(favs[k], song)
    THEN QueueRemove(favs, song.id)
    ELSE <<song>> \o favs

\* isFavorite(songId): favorites.some(s => String(s.id) === String(songId))
isFavorite(favs, songId) == \E k \in DOMAIN favs : favs[k].id = songId

NoEv == [kind |-> "none", song |-> NoSong, q |-> NoQ, retry |-> 0,
         stale |-> FALSE, otherCurrent |-> FALSE, gotUrl |-> FALSE,
         issued |-> [n |-> 0, targets |-> {}], changed |-> FALSE, before |-> <<>>,
         switched |-> FALSE, name |-> ""]

\* The ref-sync effects of the last render have run.  React flushes them before
\* it dispatches the next discrete (user) event; a promise continuation or a
\* media event can still run ahead of them.
RefsSynced == currentSongRef = currentSong /\ audioQualityRef = audioQuality

\* One step of the player: the handler's result.
Step(st) ==
    /\ Commit(st)
    /\ UNCHANGED <<favorites, userActions, varsApi, varsParse, varsAgg, varsPure, varsHome, varsSettings>>

\* One step of the player that the user starts.
UserStep(st) ==
    /\ RefsSynced
    /\ userActions < MaxUserActions
    /\ userActions' = userActions + 1
    /\ Commit(st)
    /\ UNCHANGED <<favorites, varsApi, varsParse, varsAgg, varsPure, varsHome, varsSettings>>

\* The record of a parse arrival: the invocation, the state it found, what it did.
ParseEv(c, parsed, st) ==
    [kind |-> "parseReturn", song |-> NoSong, q |-> c.target,
     retry |-> retryCount,
     stale |-> IsStale(currentSongRef, c.song),
     otherCurrent |-> currentSongRef # NoSong /\ ~SameSongKey(currentSongRef, c.song),
     gotUrl |-> parsed.ok /\ parsed.url # NoUrl,
     issued |-> LET new == st.pending (-) (pending (-) SetToBag({c}))
                IN [n |-> BagCardinality(new), targets |-> {x.target : x \in BagToSet(new)}],
     changed |-> <<st.currentSong, st.queue, st.audio.src, st.isPlaying, st.isLoading>>
                 # <<currentSong, queue, audio.src, isPlaying, isLoading>>,
     before |-> <<>>,
     switched |-> /\ ~IsStale(currentSongRef, c.song) /\ parsed.ok /\ parsed.url # NoUrl
                  /\ (audioCtx \/ audio.crossOrigin) # needsCors(parsed.url),
     name |-> ""]

(***************************************************************************)
(* Player actions                                                          *)
(***************************************************************************)
\* the user picks a track: playSong(song)
UserPlaySong(song) ==
    /\ UserStep(playSong(St, song, NoQ))
    /\ ev' = NoEv

\* the user presses play/pause
UserTogglePlay ==
    /\ currentSongRef # NoSong
    /\ UserStep(togglePlay(St))
    /\ ev' = NoEv

\* the user changes the quality setting
UserSetAudioQuality(q) ==
    /\ q # audioQuality
    /\ UserStep(setAudioQuality(St, q))
    /\ ev' = NoEv

\* the effects that copy state into the refs after a render (lines 79-92)
SyncRefs ==
    /\ ~RefsSynced
    /\ Step([St EXCEPT !.currentSongRef = currentSong, !.audioQualityRef = audioQuality])
    /\ ev' = NoEv

\* parseSongFull settles and playSong resumes
ParseReturn(c, parsed, ctxOk) ==
    LET st == playSongResume(St, c, parsed, ctxOk)
    IN /\ Step(st)
       /\ ev' = ParseEv(c, parsed, st)

\* the element fires loadedmetadata
AudioLoadedMetadata ==
    /\ audio.state = "loading"
    /\ Step(onLoadedMetadata([St EXCEPT !.audio.state = "loaded"]))
    /\ ev' = NoEv

\* the element fires error: while loading, or later while streaming
AudioError ==
    /\ audio.state \in {"loading", "loaded"}
    /\ Step(onAudioError([St EXCEPT !.audio.state = "error"]))
    /\ ev' = [NoEv EXCEPT !.kind = "audioError", !.q = audio.src.q, !.retry = retryCount]

\* the pending play() promise resolves
PlayResolved ==
    /\ audio.play /\ audio.state = "loaded"
    /\ Step([St EXCEPT !.audio.play = FALSE, !.audio.pSong = NoSong, !.audio.pTarget = NoQ])
    /\ ev' = NoEv

\* the pending play() promise rejects
PlayRejected(name) ==
    /\ audio.play
    /\ Step(onPlayRejected(St, name))
    /\ ev' = [NoEv EXCEPT !.kind = "playRejected", !.q = audio.pTarget,
                          !.retry = retryCount, !.name = name]

\* The record of a playNext call: the mode, the queue and the current song it
\* found, and the resolutions it started.
NextEv(kind, st) ==
    [NoEv EXCEPT !.kind = kind, !.name = playMode, !.before = queue, !.song = currentSong,
                 !.issued = LET new == st.pending (-) pending
                            IN [n |-> BagCardinality(new),
                                targets |-> {x.target : x \in BagToSet(new)}]]

\* the element fires ended while the track plays: playNextRef.current(false)
AudioEnded(rand) ==
    /\ audio.state = "loaded" /\ isPlaying /\ ~audio.play
    /\ RefsSynced
    /\ LET st == playNext(St, FALSE, rand)
       IN Step(st) /\ ev' = NextEv("ended", st)

\* the user presses next: playNext(true)
UserPlayNext(rand) ==
    /\ LET st == playNext(St, TRUE, rand)
       IN UserStep(st) /\ ev' = NextEv("next", st)

\* the user presses the play-mode button
UserTogglePlayMode ==
    /\ UserStep([St EXCEPT !.playMode = togglePlayMode(@)])
    /\ ev' = NoEv

InitPlayer(songs, qualities) ==
    /\ currentSong \in songs
    /\ currentSongRef = currentSong
    /\ queue = IF currentSong = NoSong THEN <<>> ELSE <<currentSong>>
    /\ isPlaying = FALSE
    /\ isLoading = FALSE
    /\ audioQuality \in qualities
    /\ audioQualityRef = audioQuality
    /\ retryCount = 0
    /\ audio = NewAudio(FALSE)
    /\ audioCtx = FALSE
    /\ pending = EmptyBag
    /\ favorites = <<>>
    /\ userActions = 0
    /\ autoRetries = 0
    /\ playMode = "sequence"
    /\ requested = NoRequest
    /\ ev = NoEv

\* the player while SongA, chosen by the user and resolved at the quality of
\* the setting, is playing
PlayingA == [SongA EXCEPT !.pic = "P", !.lrc = "L"]
InitPlaying(qualities) ==
    /\ currentSong = PlayingA
    /\ currentSongRef = currentSong
    /\ queue = <<PlayingA>>
    /\ isPlaying = TRUE
    /\ isLoading = FALSE
    /\ audioQuality \in qualities
    /\ audioQualityRef = audioQuality
    /\ retryCount = 0
    /\ audio = [NewAudio(TRUE) EXCEPT !.src = UrlFor(SongA, audioQuality),
                                      !.state = "loaded", !.binds = 1]
    /\ audioCtx = TRUE
    /\ pending = EmptyBag
    /\ favorites = <<>>
    /\ userActions = 0
    /\ autoRetries = 0
    /\ playMode = "sequence"
    /\ requested = [song |-> SongA, q |-> audioQuality, got |-> TRUE]
    /\ ev = NoEv

\* the player as a restart finds it: the current song, the queue and the play
\* mode are the ones persisted by the session before
PersistedQueues == {<<>>, <<SongA>>, <<SongA, SongC>>}
InitQueue ==
    /\ queue \in PersistedQueues
    /\ currentSong = IF queue = <<>> THEN NoSong ELSE queue[1]
    /\ currentSongRef = currentSong
    /\ isPlaying = FALSE
    /\ isLoading = FALSE
    /\ audioQuality = LowestQuality
    /\ audioQualityRef = audioQuality
    /\ retryCount = 0
    /\ audio = NewAudio(FALSE)
    /\ audioCtx = FALSE
    /\ pending = EmptyBag
    /\ favorites = <<>>
    /\ userActions = 0
    /\ autoRetries = 0
    /\ playMode \in PlayModes
    /\ requested = NoRequest
    /\ ev = NoEv

NextPlayer(catalog) ==
    \/ \E song \in catalog : UserPlaySong(song)
    \/ UserTogglePlay
    \/ \E q \in Qualities : UserSetAudioQuality(q)
    \/ SyncRefs
    \/ \E c \in BagToSet(pending) : \E parsed \in ParseResults(c.song, c.target) :
           \E ctxOk \in CtxOutcomes : ParseReturn(c, parsed, ctxOk)
    \/ AudioLoadedMetadata
    \/ AudioError
    \/ PlayResolved
    \/ \E name \in PlayErrors : PlayRejected(name)

\* what the environment owes the player: the ref-sync effects run, every
\* parseSongFull call returns, an element that is loading reports
\* loadedmetadata or an error
ResolutionReturns ==
    \E c \in BagToSet(pending) : \E parsed \in ParseResults(c.song, c.target) :
        \E ctxOk \in CtxOutcomes : ParseReturn(c, parsed, ctxOk)
ElementSettles == audio.state = "loading" /\ (AudioLoadedMetadata \/ AudioError)
FairPlayer == WF_vars(SyncRefs) /\ WF_vars(ResolutionReturns) /\ WF_vars(ElementSettles)

\* a consumer of the context calls the initAudioContext it exports
InitAudioContextCall(ctxOk) ==
    /\ Step(initAudioContext(St, ctxOk))
    /\ ev' = NoEv

\* the player with both kinds of stream host, an AudioContext that can fail
\* to initialise, and initAudioContext called from outside playSong
NextRouting ==
    \/ \E song \in SameIdCatalog : UserPlaySong(song)
    \/ UserTogglePlay
    \/ \E q \in Qualities : UserSetAudioQuality(q)
    \/ SyncRefs
    \/ \E c \in BagToSet(pending) : \E parsed \in ParseResults(c.song, c.target) :
           \E ctxOk \in BOOLEAN : ParseReturn(c, parsed, ctxOk)
    \/ AudioLoadedMetadata
    \/ AudioError
    \/ PlayResolved
    \/ \E name \in PlayErrors : PlayRejected(name)
    \/ \E ctxOk \in BOOLEAN : InitAudioContextCall(ctxOk)

\* the same without the calls from outside playSong
NextRoutingInside ==
    \/ \E song \in SameIdCatalog : UserPlaySong(song)
    \/ UserTogglePlay
    \/ \E q \in Qualities : UserSetAudioQuality(q)
    \/ SyncRefs
    \/ \E c \in BagToSet(pending) : \E parsed \in ParseResults(c.song, c.target) :
           \E ctxOk \in BOOLEAN : ParseReturn(c, parsed, ctxOk)
    \/ AudioLoadedMetadata
    \/ AudioError
    \/ PlayResolved
    \/ \E name \in PlayErrors : PlayRejected(name)


(***************************************************************************)
(* Properties of the player                                                *)
(***************************************************************************)
\* C1: between two selections of the user (playSong without a forced quality)
\* the player issues at most one automatic retry playSong(song, '128k'),
\* whatever error events, loadedmetadata events and play() rejections arrive.
C1_AtMostOneAutoRetry == autoRetries <= 1

\* a parse result that carries no URL reached an invocation that is not stale
NoUrlArrived == ev.kind = "parseReturn" /\ ~ev.stale /\ ~ev.gotUrl

\* C2: when a resolution yields no URL, at a quality other than 128k and with
\* the retry counter at 0, exactly one further resolution is issued, at 128k;
\* when the quality was 128k (the retry itself included) none is issued and
\* playback stops: isLoading and isPlaying are false.
C2_NoUrlDegradesOnce ==
    NoUrlArrived =>
        /\ (ev.q # LowestQuality /\ ev.retry = 0)
              => ev.issued = [n |-> 1, targets |-> {LowestQuality}]
        /\ ev.q = LowestQuality
              => (ev.issued.n = 0 /\ ~isLoading /\ ~isPlaying)

\* the 128k retry itself came back without a URL and the player stopped
C2_RetryAlsoWithoutUrl ==
    /\ NoUrlArrived /\ ev.q = LowestQuality /\ audioQualityRef # LowestQuality
    /\ autoRetries = 1 /\ ev.issued.n = 0 /\ ~isLoading

\* C3: the result of a resolution that arrives after another track (another
\* (source, id)) has become current changes neither currentSong, nor the
\* queue, nor the element's src, nor isPlaying, nor isLoading.
C3_StaleResultDiscarded ==
    (ev.kind = "parseReturn" /\ ev.otherCurrent) => ~ev.changed

(***************************************************************************)
(* The queue and the library: the operations that dedup songs.              *)
(***************************************************************************)
\* addToQueue(song)
AddToQueue(song) ==
    /\ queue' = QueueInsert(queue, song)
    /\ ev' = [NoEv EXCEPT !.kind = "addToQueue", !.song = song, !.before = queue]
    /\ UNCHANGED <<currentSong, currentSongRef, isPlaying, isLoading, audioQuality,
                   audioQualityRef, retryCount, audio, audioCtx, pending, favorites,
                   userActions, autoRetries, playMode, requested, varsApi, varsParse, varsAgg,
                   varsPure, varsHome, varsSettings>>

\* removeFromQueue(songId), called with the id of a listed song
RemoveFromQueue(song) ==
    /\ queue # <<>>
    /\ queue' = QueueRemove(queue, song.id)
    /\ ev' = [NoEv EXCEPT !.kind = "removeFromQueue", !.song = song, !.before = queue]
    /\ UNCHANGED <<currentSong, currentSongRef, isPlaying, isLoading, audioQuality,
                   audioQualityRef, retryCount, audio, audioCtx, pending, favorites,
                   userActions, autoRetries, playMode, requested, varsApi, varsParse, varsAgg,
                   varsPure, varsHome, varsSettings>>

\* toggleFavorite(song)
ToggleFavorite(song) ==
    /\ favorites' = toggleFavorite(favorites, song)
    /\ ev' = [NoEv EXCEPT !.kind = "toggleFavorite", !.song = song, !.before = favorites]
    /\ UNCHANGED <<currentSong, currentSongRef, queue, isPlaying, isLoading, audioQuality,
                   audioQualityRef, retryCount, audio, audioCtx, pending,
                   userActions, autoRetries, playMode, requested, varsApi, varsParse, varsAgg,
                   varsPure, varsHome, varsSettings>>

NextLibrary ==
    \/ \E song \in LibraryCatalog : AddToQueue(song)
    \/ \E song \in LibraryCatalog : RemoveFromQueue(song)
    \/ \E song \in LibraryCatalog : ToggleFavorite(song)


(***************************************************************************)
(* Properties of the queue and the library                                 *)
(***************************************************************************)
HasKey(list, song) == \E k \in DOMAIN list : SameSongKey(list[k], song)

\* C4: the dedup of the queue compares (source, id): addToQueue appends the
\* song unless the queue already holds an entry with its source and its id.
C4_QueueDedupBySourceAndId ==
    (ev.kind = "addToQueue" /\ ~HasKey(ev.before, ev.song)) => HasKey(queue, ev.song)

(***************************************************************************)
(* services/api.ts: payloads, response texts and the pure helpers           *)
(***************************************************************************)
\* DEFAULT_PROXIES, in order, and a proxy the user has configured
DEFAULT_PROXIES == <<"https://corsproxy.io/?",
                     "https://api.codetabs.com/v1/proxy?quest=",
                     "https://api.allorigins.win/raw?url=">>
UserProxy == "https://my.proxy/?"
StoredChoices == {"", UserProxy}

Platforms == {"netease", "qq", "kuwo"}

\* String.prototype.startsWith / indexOf / includes / replace (first match)
StartsWith(str, prefix) ==
    Len(str) >= Len(prefix) /\ SubSeq(str, 1, Len(prefix)) = prefix

IndexOf(str, sub) ==
    LET at == {i \in 1..(Len(str) - Len(sub) + 1) : SubSeq(str, i, i + Len(sub) - 1) = sub}
    IN IF at = {} THEN 0 ELSE CHOOSE i \in at : \A j \in at : i <= j

Includes(str, sub) == IndexOf(str, sub) > 0

ReplaceFirst(str, sub, new) ==
    LET i == IndexOf(str, sub)
    IN IF i = 0 THEN str
       ELSE SubSeq(str, 1, i - 1) \o new \o SubSeq(str, i + Len(sub), Len(str))

\* fixUrl, on URLs without surrounding white space
fixUrl(url) ==
    IF url = "" THEN ""
    ELSE LET f1 == IF StartsWith(url, "//") THEN "https:" \o url ELSE url
             f2 == IF StartsWith(f1, "http://")
                       /\ (Includes(f1, "music.126.net") \/ Includes(f1, "y.gtimg.cn")
                           \/ Includes(f1, "qpic.cn"))
                    THEN ReplaceFirst(f1, "http://", "https://") ELSE f1
         IN IF Includes(f2, "300x300") THEN ReplaceFirst(f2, "300x300", "500x500") ELSE f2

\* Elements of a payload list: track records with or without a cover, and the
\* scalars -1 and "-1" that a blocked proxy answers with.
RecPic == [t |-> "rec", v |-> "r1", pic |-> "http://img/1.jpg"]
RecNoPic == [t |-> "rec", v |-> "r2", pic |-> ""]
NumMinus1 == [t |-> "num", v |-> "-1", pic |-> ""]
StrMinus1 == [t |-> "str", v |-> "-1", pic |-> ""]

\* A parsed JSON value: falsy (null), an array, an object that holds one list
\* under `path`, or the AllOrigins wrapper object {contents, status: {url}}.
NullVal == [kind |-> "falsy", code |-> 0, path |-> "", items |-> <<>>]
WrapperVal == [kind |-> "wrapper", code |-> 0, path |-> "", items |-> <<>>]
ArrayOf(items) == [kind |-> "array", code |-> 0, path |-> "", items |-> items]
ObjectWith(path, items) == [kind |-> "object", code |-> 0, path |-> path, items |-> items]
Tracks == <<RecPic, RecNoPic>>
ObjectPaths == {"list", "result.songs", "playlist.tracks", "req.data.body.song.list",
                "abslist", "musiclist", "pic", "req.data.lyric", "lrc.lyric",
                "data.lrclist"}
AntiScraping == [kind |-> "object", code |-> -447, path |-> "", items |-> <<>>]
Values ==
    {NullVal, AntiScraping, ObjectWith("", <<>>), ObjectWith("data.lrclist", <<>>),
     ArrayOf(<<>>), ArrayOf(<<NumMinus1>>), ArrayOf(<<StrMinus1>>), ArrayOf(Tracks)}
    \cup {ObjectWith(pa, Tracks) : pa \in ObjectPaths}

\* A response body: its textual form (strict JSON, JSONP callback(...), a
\* single-quoted dict, or neither), whether the JSON is the AllOrigins wrapper,
\* the form of the wrapper's contents string, and the value it encodes.
Forms == {"json", "jsonp", "squote", "garbled"}
NetErr == [form |-> "neterr", wrapped |-> FALSE, inner |-> "", val |-> NullVal]
Plain(form, val) == [form |-> form, wrapped |-> FALSE, inner |-> "", val |-> val]
Wrapped(inner, val) == [form |-> "json", wrapped |-> TRUE, inner |-> inner, val |-> val]
Texts ==
    {Plain("json", v) : v \in Values}
    \cup {Plain("jsonp", v) : v \in {ArrayOf(<<StrMinus1>>), ArrayOf(Tracks),
                                      ObjectWith("result.songs", Tracks),
                                      ObjectWith("req.data.body.song.list", Tracks),
                                      ObjectWith("abslist", Tracks)}}
    \cup {Plain("squote", v) : v \in {ArrayOf(Tracks), ObjectWith("abslist", Tracks)}}
    \cup {Plain("garbled", NullVal)}
    \cup {Wrapped("json", v) : v \in {NullVal, AntiScraping, ArrayOf(<<NumMinus1>>),
                                      ArrayOf(Tracks), ObjectWith("result.songs", Tracks)}}
    \cup {Wrapped("jsonp", v) : v \in {ArrayOf(Tracks), ObjectWith("result.songs", Tracks)}}
    \cup {Wrapped("garbled", NullVal)}
Responses == {NetErr} \cup Texts

\* the value JSON.parse yields for the outer text
OuterVal(text) == IF text.wrapped THEN WrapperVal ELSE text.val

\* executeMethod lines 578-612: JSON, else JSONP, then the AllOrigins unwrap
\* (JSON, else JSONP); a wrapper whose contents parse as neither stays rawData
ParseExec(text) ==
    LET outer == IF text.form \in {"json", "jsonp"} THEN OuterVal(text) ELSE NullVal
    IN IF outer.kind = "wrapper" /\ text.inner \in {"json", "jsonp"}
       THEN text.val ELSE outer

\* proxyFetchJson lines 859-868: JSON, else JSONP, then the AllOrigins unwrap
\* (JSON only)
ParseFetchJson(text) ==
    LET outer == IF text.form \in {"json", "jsonp"} THEN OuterVal(text) ELSE NullVal
    IN IF outer.kind = "wrapper" /\ text.inner = "json" THEN text.val ELSE outer

\* resp.json() of the QQ fallbacks: strict JSON only; NullVal stands for the throw
ParseRespJson(text) == IF text.form = "json" THEN OuterVal(text) ELSE NullVal

\* kuwoSearchFallback: JSON.parse(text.replace(/'/g, '"'))
ParseKuwoSearch(text) ==
    IF text.form \in {"json", "squote"} THEN OuterVal(text) ELSE NullVal

\* the garbage test without the string "-1"
IsGarbage_NumberOnly(raw) ==
    \/ raw.kind = "array" /\ Len(raw.items) > 0 /\ raw.items[1] = NumMinus1
    \/ raw.code = -447

\* executeMethod lines 620-627
IsGarbage(raw) ==
    \/ raw.kind = "array" /\ Len(raw.items) > 0
         /\ (raw.items[1] = StrMinus1 \/ raw.items[1] = NumMinus1)
    \/ raw.code = -447

\* the list stored under a path of an object payload (data?.a?.b)
ListAt(val, path) ==
    IF val.kind = "object" /\ val.path = path THEN val.items ELSE <<>>

\* extractList on these payloads: an array is the list; of the object paths
\* only req.data.body.song.list (line 339) and the first-level key `list`
\* (priorityKeys) are found
extractList(data) ==
    IF data.kind = "array" THEN data.items
    ELSE IF data.kind = "object" /\ data.path \in {"req.data.body.song.list", "list"}
         THEN data.items
    ELSE <<>>

\* extractRawTracks: the raw track arrays it knows
extractRawTracks(data) ==
    IF data.kind = "object"
       /\ data.path \in {"result.songs", "playlist.tracks", "req.data.body.song.list",
                         "musiclist", "abslist"}
    THEN data.items ELSE <<>>

\* a Song / TopList record as the callers receive it
Entry(platform, item, pic) == [source |-> platform, id |-> item.v, t |-> item.t, pic |-> pic]

\* normalizeSongs: every (truthy) item becomes a Song; a scalar gets a temp_ id
normalizeSongs(list, platform) ==
    [k \in DOMAIN list |-> Entry(platform, list[k], list[k].pic)]

\* getTopLists lines 1119-1128
mapTopLists(list, platform) ==
    [k \in DOMAIN list |-> Entry(platform, list[k], list[k].pic)]

\* what a descriptor's transform does with the raw payload
Transforms == {"none", "throws", "falsy", "list"}

\* lines 629-673: transform, cover backfill from the raw tracks, fallbacks to rawData
ApplyTransform(transform, rawData) ==
    IF transform \in {"none", "throws", "falsy"} THEN rawData
    ELSE LET src == IF rawData.kind = "array" THEN rawData.items
                    ELSE IF rawData.kind = "object" THEN rawData.items ELSE <<>>
             dropped == [k \in DOMAIN src |-> [src[k] EXCEPT !.pic = ""]]
             rawTracks == extractRawTracks(rawData)
             filled == IF Len(dropped) > 0 /\ Len(rawTracks) > 0
                       THEN [k \in DOMAIN dropped |->
                               [dropped[k] EXCEPT !.pic = rawTracks[k].pic]]
                       ELSE dropped
         IN [kind |-> "array", code |-> 0, path |-> "", items |-> filled]

(***************************************************************************)
(* services/api.ts: one call of searchSongs, getTopLists, getTopListDetail  *)
(* or fetchFallbackLyrics, advanced from one network response to the next   *)
(***************************************************************************)
Kinds == {"search", "toplists", "toplist"}

IdleOp ==
    [pc |-> "idle", kind |-> "", platform |-> "", id |-> "", transform |-> "",
     loop |-> "", fb |-> "", proxies |-> <<>>, stored |-> "", idx |-> 0,
     descriptor |-> "", exec |-> "pending", pfj |-> "pending",
     primary |-> <<>>, fbInvoked |-> FALSE, fbDone |-> FALSE, fbResult |-> <<>>,
     songs |-> <<>>, covers |-> {}, result |-> <<>>, threw |-> FALSE, known |-> "none",
     asked |-> <<>>, got |-> <<>>]

\* the state a call works on, so that a continuation is a composition
Api == [op |-> op, reqLog |-> reqLog, attempts |-> attempts,
        kuwoChartPic |-> kuwoChartPic, lyricsCache |-> lyricsCache,
        lyricsDone |-> lyricsDone]

CommitApi(a) ==
    /\ op' = a.op
    /\ reqLog' = a.reqLog
    /\ attempts' = a.attempts
    /\ kuwoChartPic' = a.kuwoChartPic
    /\ lyricsCache' = a.lyricsCache
    /\ lyricsDone' = a.lyricsDone
    /\ UNCHANGED <<storedProxy, varsPlayer, varsParse, varsAgg, varsPure, varsHome, varsSettings>>

\* a request handed to fetch: who sent it, through which proxy ("" = direct),
\* and the stored proxy the sender had read
Req(by, via, stored) == [by |-> by, via |-> via, stored |-> stored]

SendTo(a, by, via, stored) == [a EXCEPT !.reqLog = Append(@, Req(by, via, stored))]

\* the proxy list with the defaults kept behind the user's proxy
ProxyList_Blended(stored) ==
    IF stored # "" THEN <<stored>> \o DEFAULT_PROXIES ELSE DEFAULT_PROXIES

\* storedProxy ? [storedProxy] : DEFAULT_PROXIES
ProxyList(stored) == IF stored # "" THEN <<stored>> ELSE DEFAULT_PROXIES

\* enter a proxy loop: read the stored proxy, send the first request
StartLoop(a, loop) ==
    LET proxies == ProxyList(storedProxy)
    IN SendTo([a EXCEPT !.op.pc = "loop", !.op.loop = loop, !.op.proxies = proxies,
                        !.op.stored = storedProxy, !.op.idx = 1],
              loop, proxies[1], storedProxy)

HasNextProxy(a) == a.op.idx < Len(a.op.proxies)

\* a `continue` that asks the proxy it has just asked
TryNextProxy_SameProxy(a) ==
    SendTo([a EXCEPT !.op.idx = @ + 1], a.op.loop, a.op.proxies[a.op.idx], a.op.stored)

\* `continue`: the request to the next proxy of the list
TryNextProxy(a) ==
    SendTo([a EXCEPT !.op.idx = @ + 1], a.op.loop, a.op.proxies[a.op.idx + 1], a.op.stored)

\* the call returns
Finish(a, result) == [a EXCEPT !.op.pc = "done", !.op.result = result]

\* a fallback resolver returns, and the caller returns its result
FinishFallback(a, result) ==
    Finish([a EXCEPT !.op.fbDone = TRUE, !.op.fbResult = result], result)

\* the end of a cover backfill: the list goes to whoever asked for it
FinishCovers(a, songs) ==
    IF a.op.fbInvoked THEN FinishFallback(a, songs) ELSE Finish(a, songs)

\* batchFetchKuwoCovers up to its awaits: an empty list goes back at once;
\* else one request per song that has no cover and has an id, all through
\* storedProxy || DEFAULT_PROXIES[0].  asked / got are history: the list the
\* function was called with, and what each song's request was answered with.
batchFetchKuwoCovers(a, songs) ==
    LET proxy == IF storedProxy # "" THEN storedProxy ELSE DEFAULT_PROXIES[1]
        need == {k \in DOMAIN songs : ~(songs[k].pic # "" \/ songs[k].id = "")}
        reqs == [k \in 1..Cardinality(need) |-> Req("batchFetchKuwoCovers", proxy, storedProxy)]
        a1 == [a EXCEPT !.op.asked = songs, !.op.got = [k \in DOMAIN songs |-> "none"]]
    IN IF need = {} THEN FinishCovers(a1, songs)
       ELSE [a1 EXCEPT !.op.pc = "covers", !.op.songs = songs, !.op.covers = need,
                       !.reqLog = @ \o reqs]

\* KUWO_POPULAR_CHARTS mapped to TopList records
KuwoChartIds == <<"93", "17", "16", "158", "284", "264", "145">>
KuwoCharts(pic) ==
    [k \in DOMAIN KuwoChartIds |->
        [source |-> "", id |-> KuwoChartIds[k], t |-> "rec", pic |-> IF k = 1 THEN pic ELSE ""]]

\* the fallback mappings: a fixed path, a fixed record shape
FallbackSongs(list, platform, keepPic) ==
    [k \in DOMAIN list |-> Entry(platform, list[k], IF keepPic THEN list[k].pic ELSE "")]

LyricText == <<[source |-> "", id |-> "lrc", t |-> "lrc", pic |-> ""]>>

\* a Map of the module: has / get / set by key
EmptyMap == [k \in {} |-> ""]
MapHas(map, key) == key \in DOMAIN map
MapSet(map, key, val) == [k \in DOMAIN map \cup {key} |-> IF k = key THEN val ELSE map[k]]

\* the cache key without the track id
LyricsKey_NoId(source, id) == "lrc:" \o source

\* fetchFallbackLyrics line 729: `lrc:${source}:${id}`
LyricsKey(source, id) == "lrc:" \o source \o ":" \o id

\* the LRC text the lyric endpoints answer with, as a string
LrcString == "[00:01.00]la"

\* the (source, id) pairs lyric lookups are made for
LyricPairs == {<<"netease", "1">>, <<"netease", "2">>, <<"qq", "1">>, <<"kuwo", "1">>}

\* the dispatch without the Kuwo chart fallbacks
FallbackOf_NeteaseOnlyCharts(kind, platform) ==
    IF kind = "search"
    THEN (IF platform = "netease" THEN "neteaseSearchFallback"
          ELSE IF platform = "qq" THEN "qqSearchFallback" ELSE "kuwoSearchFallback")
    ELSE IF kind = "toplists"
    THEN (IF platform = "netease" THEN "neteaseToplistsFallback" ELSE "none")
    ELSE (IF platform = "netease" THEN "neteaseToplistDetailFallback" ELSE "none")

\* the fallback resolver searchSongs / getTopLists / getTopListDetail dispatch to
FallbackOf(kind, platform) ==
    IF kind = "search"
    THEN (IF platform = "netease" THEN "neteaseSearchFallback"
          ELSE IF platform = "qq" THEN "qqSearchFallback" ELSE "kuwoSearchFallback")
    ELSE IF kind = "toplists"
    THEN (IF platform = "netease" THEN "neteaseToplistsFallback"
          ELSE IF platform = "kuwo" THEN "kuwoToplistsFallback" ELSE "none")
    ELSE (IF platform = "netease" THEN "neteaseToplistDetailFallback"
          ELSE IF platform = "kuwo" THEN "kuwoToplistDetailFallback" ELSE "none")

\* the loop a fallback resolver runs
LoopOf(fb) ==
    IF fb \in {"qqSearchFallback", "kuwoSearchFallback"} THEN fb ELSE "proxyFetchJson"

StartFallback(a, fb) ==
    StartLoop([a EXCEPT !.op.fbInvoked = TRUE, !.op.fb = fb], LoopOf(fb))

\* the emptiness test that is always true
PrimaryEmpty_Always(results) == TRUE

\* results.length === 0
PrimaryEmpty(results) == Len(results) = 0

\* history: what executeMethod resolved to: null, a payload that is [-1],
\* ["-1"] or carries code -447, or other data
Returned(data) ==
    IF data = NullVal THEN "null"
    ELSE IF data.code = -447
            \/ (data.kind = "array" /\ Len(data.items) > 0
                  /\ data.items[1].v = "-1" /\ data.items[1].t \in {"num", "str"})
         THEN "garbage"
    ELSE "data"

\* getPlaylistDetail after `await executeMethod(platform, 'playlist', {id})`:
\* null (here the empty list) when there is no data, else the normalized
\* songs of the payload as they are
getPlaylistDetail(a, data, songs) ==
    IF data = NullVal THEN Finish(a, <<>>) ELSE Finish(a, songs)

\* the caller's code after `await executeMethod(...)`
AfterExec(a, data) ==
    LET o == a.op
        list == extractList(data)
        results == IF o.kind = "toplists" THEN mapTopLists(list, o.platform)
                   ELSE normalizeSongs(list, o.platform)
        a1 == [a EXCEPT !.op.exec = Returned(data), !.op.primary = results,
                        !.op.transform = ""]
        fb == FallbackOf(o.kind, o.platform)
    IN IF o.kind = "playlist" THEN getPlaylistDetail(a1, data, results)
       ELSE IF PrimaryEmpty(results) /\ fb # "none" THEN StartFallback(a1, fb)
       ELSE IF o.kind \in {"search", "toplist"} /\ o.platform = "kuwo"
               /\ Len(results) > 0 /\ (\E k \in DOMAIN results : results[k].pic = "")
            THEN batchFetchKuwoCovers(a1, results)
       ELSE Finish(a1, results)

\* what the configuration service can answer to GET /v1/methods/<platform>/<fn>
DescResponses ==
    {[status |-> st, code |-> 0, hasData |-> FALSE, transform |-> "none"] :
         st \in {"neterr", "html", "unauthorized", "httpError", "badJson"}}
    \cup {[status |-> "json", code |-> c, hasData |-> h, transform |-> t] :
             c \in {0, 500}, h \in BOOLEAN, t \in Transforms}

\* tuneHubFetch: null for a rejected fetch, an HTML page, a 401, any other
\* non-2xx status and a body that is not JSON; else the parsed body
tuneHubFetch(resp) ==
    IF resp.status = "json"
    THEN [isNull |-> FALSE, code |-> resp.code, hasData |-> resp.hasData,
          transform |-> resp.transform]
    ELSE [isNull |-> TRUE, code |-> 0, hasData |-> FALSE, transform |-> "none"]

\* the descriptor test that ignores the response code
DescriptorUsable_IgnoresCode(res) == ~res.isNull /\ res.hasData

\* executeMethod line 492, negated: !(!res || res.code !== 0 || !res.data)
DescriptorUsable(res) == ~res.isNull /\ res.code = 0 /\ res.hasData

\* executeMethod: one turn of its proxy loop, from the response on
OnExecResponse(a, resp) ==
    LET note(cls) == [a EXCEPT !.attempts =
                         Append(@, [proxy |-> a.op.proxies[a.op.idx], outcome |-> cls])]
        raw == ParseExec(resp)
        next(b) == IF HasNextProxy(b) THEN TryNextProxy(b) ELSE AfterExec(b, NullVal)
    IN IF resp = NetErr THEN next(note("neterr"))
       ELSE IF raw.kind = "falsy" THEN next(note("unparsable"))
       ELSE IF IsGarbage(raw) THEN next(note("garbage"))
       ELSE AfterExec(note("ok"), ApplyTransform(a.op.transform, raw))

\* fetchFallbackLyrics stores its text and returns it
FinishLyrics(a, lrc) ==
    LET text == IF lrc = <<>> THEN "" ELSE LrcString
        pair == <<a.op.platform, a.op.id>>
    IN Finish([a EXCEPT !.lyricsCache = MapSet(@, LyricsKey(a.op.platform, a.op.id), text),
                        !.lyricsDone[pair] = IF @ = "none" THEN text ELSE @],
              lrc)

\* openApiResp?.data?.lrclist is there (an empty array included)
HasLrcList(data) == data.kind = "object" /\ data.path = "data.lrclist"

LrcOf(list) == IF list = <<>> THEN <<>> ELSE LyricText

\* the code after `await proxyFetchJson(url)` in each resolver that uses it
ResumeAfterFetchJson(a, data) ==
    LET fb == a.op.fb
    IN IF fb = "neteaseSearchFallback"
       THEN FinishFallback(a, FallbackSongs(ListAt(data, "result.songs"), "netease", TRUE))
       ELSE IF fb = "neteaseToplistsFallback"
       THEN FinishFallback(a, FallbackSongs(ListAt(data, "list"), "", TRUE))
       ELSE IF fb = "neteaseToplistDetailFallback"
       THEN FinishFallback(a, FallbackSongs(ListAt(data, "playlist.tracks"), "netease", TRUE))
       ELSE IF fb = "kuwoToplistsFallback"
       THEN LET pic == IF ListAt(data, "pic") # <<>> THEN "http://kuwo/chart.jpg"
                       ELSE a.kuwoChartPic
            IN FinishFallback([a EXCEPT !.kuwoChartPic = pic], KuwoCharts(pic))
       ELSE IF fb = "kuwoToplistDetailFallback"
       THEN batchFetchKuwoCovers(a, FallbackSongs(ListAt(data, "musiclist"), "kuwo", FALSE))
       ELSE IF fb = "neteaseLyric"
       THEN FinishLyrics(a, LrcOf(ListAt(data, "lrc.lyric")))
       ELSE IF fb = "kuwoLyric" /\ ~HasLrcList(data)
       THEN StartLoop([a EXCEPT !.op.fb = "kuwoLyric2"], "proxyFetchJson")
       ELSE FinishLyrics(a, LrcOf(ListAt(data, "data.lrclist")))

\* proxyFetchJson returns
AfterFetchJson(a, data) ==
    ResumeAfterFetchJson([a EXCEPT !.op.pfj = Returned(data)], data)

\* proxyFetchJson: one turn of its loop; any truthy value is returned
OnFetchJsonResponse(a, resp) ==
    LET data == ParseFetchJson(resp)
    IN IF resp = NetErr \/ data.kind = "falsy"
       THEN (IF HasNextProxy(a) THEN TryNextProxy(a) ELSE AfterFetchJson(a, NullVal))
       ELSE AfterFetchJson(a, data)

\* qqSearchFallback: one turn of its loop
OnQqSearchResponse(a, resp) ==
    LET songs == ListAt(ParseRespJson(resp), "req.data.body.song.list")
    IN IF resp = NetErr \/ songs = <<>>
       THEN (IF HasNextProxy(a) THEN TryNextProxy(a) ELSE FinishFallback(a, <<>>))
       ELSE FinishFallback(a, FallbackSongs(songs, "qq", TRUE))

\* kuwoSearchFallback: one turn of its loop
OnKuwoSearchResponse(a, resp) ==
    LET list == ListAt(ParseKuwoSearch(resp), "abslist")
    IN IF resp = NetErr \/ list = <<>>
       THEN (IF HasNextProxy(a) THEN TryNextProxy(a) ELSE FinishFallback(a, <<>>))
       ELSE batchFetchKuwoCovers(a, FallbackSongs(list, "kuwo", FALSE))

\* fetchFallbackLyrics, source qq: one turn of its loop
OnQqLyricResponse(a, resp) ==
    LET lyric == ListAt(ParseRespJson(resp), "req.data.lyric")
    IN IF resp = NetErr \/ lyric = <<>>
       THEN (IF HasNextProxy(a) THEN TryNextProxy(a) ELSE FinishLyrics(a, <<>>))
       ELSE FinishLyrics(a, LyricText)

\* fetchFallbackLyrics up to its first await
fetchFallbackLyrics(a) ==
    LET cacheKey == LyricsKey(a.op.platform, a.op.id)
    IN IF MapHas(a.lyricsCache, cacheKey)
       THEN Finish(a, IF a.lyricsCache[cacheKey] # "" THEN LyricText ELSE <<>>)
       ELSE IF a.op.platform = "netease"
       THEN StartLoop([a EXCEPT !.op.fb = "neteaseLyric"], "proxyFetchJson")
       ELSE IF a.op.platform = "qq"
       THEN StartLoop([a EXCEPT !.op.fb = "qqLyric"], "qqLyric")
       ELSE StartLoop([a EXCEPT !.op.fb = "kuwoLyric"], "proxyFetchJson")

(***************************************************************************)
(* Actions of services/api.ts                                              *)
(***************************************************************************)
\* a page calls searchSongs, getTopLists, getTopListDetail, getPlaylistDetail
\* or (through getLyrics / parseSongFull) fetchFallbackLyrics
Call(kind, platform, id) ==
    LET a0 == [Api EXCEPT !.op = [IdleOp EXCEPT !.kind = kind, !.platform = platform,
                                                !.id = id],
                          !.reqLog = <<>>, !.attempts = <<>>]
    IN /\ op.pc \in {"idle", "done"}
       /\ IF kind = "lyrics"
          THEN CommitApi(fetchFallbackLyrics(
                            [a0 EXCEPT !.op.known = lyricsDone[<<platform, id>>]]))
          ELSE CommitApi(SendTo([a0 EXCEPT !.op.pc = "descriptor"], "tuneHubFetch", "", ""))

\* the calls of a session: the three list operations on every platform, the
\* lyric fallback of the platform that runs a proxy loop of its own, and
\* getPlaylistDetail on the platform whose lists get a cover backfill
CallApi ==
    \/ \E kind \in Kinds, platform \in Platforms : Call(kind, platform, "1")
    \/ Call("lyrics", "qq", "1")
    \/ Call("playlist", "kuwo", "1")

\* the lyric fallback on every platform, and for two tracks of one platform
CallLyrics == \E pair \in LyricPairs : Call("lyrics", pair[1], pair[2])

\* history: what the configuration service answered
Answered(resp) ==
    IF resp.status # "json" THEN resp.status
    ELSE IF resp.code # 0 THEN "nonZeroCode"
    ELSE IF ~resp.hasData THEN "noData" ELSE "descriptor"

\* the configuration service answers (or the fetch fails)
DescriptorResponse(resp) ==
    LET res == tuneHubFetch(resp)
        a0 == [Api EXCEPT !.op.descriptor = Answered(resp)]
    IN /\ op.pc = "descriptor"
       /\ IF DescriptorUsable(res)
          THEN CommitApi(StartLoop([a0 EXCEPT !.op.transform = res.transform],
                                   "executeMethod"))
          ELSE CommitApi(AfterExec(a0, NullVal))

\* the proxy of the current turn answers (or the fetch fails)
ProxyResponse(resp) ==
    /\ op.pc = "loop"
    /\ CommitApi(IF op.loop = "executeMethod" THEN OnExecResponse(Api, resp)
                 ELSE IF op.loop = "proxyFetchJson" THEN OnFetchJsonResponse(Api, resp)
                 ELSE IF op.loop = "qqSearchFallback" THEN OnQqSearchResponse(Api, resp)
                 ELSE IF op.loop = "kuwoSearchFallback" THEN OnKuwoSearchResponse(Api, resp)
                 ELSE OnQqLyricResponse(Api, resp))

\* what artistpicserver can answer for one song: a failed fetch, the URL of
\* a cover, a body that is not a URL
CoverOutcomes == {"neterr", "url", "other"}

CoverBody(outcome) ==
    IF outcome = "url" THEN "http://img1.kwcdn.kuwo.cn/star/albumcover/300x300/c.jpg"
    ELSE "NO_PIC"

\* the cover promise in which a failed request takes the other covers along
CoverOf_FailureClearsAll(songs, k, outcome) ==
    LET picUrl == IF outcome = "neterr" THEN "" ELSE CoverBody(outcome)
    IN IF picUrl # "" /\ StartsWith(picUrl, "http")
       THEN [songs EXCEPT ![k].pic = fixUrl(picUrl)]
       ELSE [j \in DOMAIN songs |-> [songs[j] EXCEPT !.pic = ""]]

\* one cover promise from its response on (lines 973-981): the list with
\* song k as the promise resolves it
CoverOf(songs, k, outcome) ==
    LET picUrl == IF outcome = "neterr" THEN "" ELSE CoverBody(outcome)
    IN IF picUrl # "" /\ StartsWith(picUrl, "http")
       THEN [songs EXCEPT ![k].pic = fixUrl(picUrl)]
       ELSE songs

\* one of the parallel cover requests settles; Promise.all resolves with the
\* last of them
CoverResponse(k, outcome) ==
    LET songs == CoverOf(op.songs, k, outcome)
        left == op.covers \ {k}
        a1 == [Api EXCEPT !.op.songs = songs, !.op.covers = left, !.op.got[k] = outcome]
    IN /\ op.pc = "covers"
       /\ k \in op.covers
       /\ CommitApi(IF left = {} THEN FinishCovers(a1, songs) ELSE a1)

\* the lists batchFetchKuwoCovers is called with: up to MaxSongs songs, each
\* with a cover, without one, or without a cover and without an id
MaxSongs == 3
SongKinds == {"cover", "bare", "noId"}
SongOf(k, kind) ==
    [source |-> "kuwo", id |-> IF kind = "noId" THEN "" ELSE ToString(k), t |-> "rec",
     pic |-> IF kind = "cover" THEN "http://img/1.jpg" ELSE ""]
CoverInputs ==
    UNION {{[k \in 1..n |-> SongOf(k, kinds[k])] : kinds \in [1..n -> SongKinds]} :
               n \in 0..MaxSongs}

\* a caller hands a list to batchFetchKuwoCovers
CallCovers(songs) ==
    LET a0 == [Api EXCEPT !.op = [IdleOp EXCEPT !.kind = "covers", !.platform = "kuwo"],
                          !.reqLog = <<>>, !.attempts = <<>>]
    IN /\ op.pc \in {"idle", "done"}
       /\ CommitApi(batchFetchKuwoCovers(a0, songs))

\* the settings page stores a proxy ("" = the field left empty), while no
\* call is under way
SetCorsProxy(p) ==
    /\ op.pc \in {"idle", "done"}
    /\ p # storedProxy
    /\ storedProxy' = p
    /\ UNCHANGED <<op, reqLog, attempts, kuwoChartPic, lyricsCache, lyricsDone, varsPlayer,
                   varsParse, varsAgg, varsPure, varsHome, varsSettings>>

InitApi(stored) ==
    /\ storedProxy \in stored
    /\ op = IdleOp
    /\ reqLog = <<>>
    /\ attempts = <<>>
    /\ kuwoChartPic = ""
    /\ lyricsCache = EmptyMap
    /\ lyricsDone = [pair \in LyricPairs |-> "none"]

NextApi ==
    \/ CallApi
    \/ \E resp \in DescResponses : DescriptorResponse(resp)
    \/ \E resp \in Responses : ProxyResponse(resp)
    \/ \E k \in DOMAIN op.songs, outcome \in CoverOutcomes : CoverResponse(k, outcome)
    \/ \E p \in StoredChoices : SetCorsProxy(p)

NextCovers ==
    \/ \E songs \in CoverInputs : CallCovers(songs)
    \/ \E k \in DOMAIN op.songs, outcome \in CoverOutcomes : CoverResponse(k, outcome)
    \/ \E p \in StoredChoices : SetCorsProxy(p)

NextLyrics ==
    \/ CallLyrics
    \/ \E resp \in Responses : ProxyResponse(resp)
    \/ \E p \in StoredChoices : SetCorsProxy(p)

(***************************************************************************)
(* services/api.ts: parseSongs, getSongInfo, getLyrics, getSongUrl,         *)
(* parseSongFull and the parse-result cache                                 *)
(***************************************************************************)
\* PARSE_CACHE_TTL = 5 * 60 * 1000 ms
PARSE_CACHE_TTL == 300000

\* the instants Date.now() is read at: the start, just inside the TTL after
\* it, exactly the TTL after it
Instants == {0, PARSE_CACHE_TTL - 1, PARSE_CACHE_TTL}

\* String(ids).startsWith('temp_')
IsTempId(id) == StartsWith(id, "temp_")

\* a placeholder id as normalizeSongs makes it
TempId == "temp_k3x9"

\* the (platform, id, quality) triples the functions are called with
ParseTargets ==
    {<<"netease", "1", "320k">>, <<"netease", "1", "128k">>, <<"kuwo", "1", "320k">>,
     <<"netease", TempId, "320k">>}

ParseFns == {"parseSongs", "getSongInfo", "getLyrics", "getSongUrl", "parseSongFull"}

\* the first element of the list /v1/parse answers with
ItemA == [t |-> "rec", v |-> "1", pic |-> "http://p1.music.126.net/300x300/a.jpg",
          url |-> "http://m7.music.126.net/a.mp3", lrc |-> "[00:00.00]a"]
ItemB == [t |-> "rec", v |-> "1", pic |-> "",
          url |-> "//sycdn.kuwo.cn/b.mp3", lrc |-> ""]
NoItem == [t |-> "", v |-> "", pic |-> "", url |-> "", lrc |-> ""]

\* what POST /v1/parse can bring: a failed fetch (tuneHubFetch gives null), a
\* body without data, an empty list, a list of one item
ParseResponses ==
    {[status |-> "neterr", hasData |-> FALSE, list |-> <<>>],
     [status |-> "json", hasData |-> FALSE, list |-> <<>>],
     [status |-> "json", hasData |-> TRUE, list |-> <<>>],
     [status |-> "json", hasData |-> TRUE, list |-> <<ItemA>>],
     [status |-> "json", hasData |-> TRUE, list |-> <<ItemB>>]}

\* what a parse function resolves to
Pending == [kind |-> "pending", url |-> "", lrc |-> "", pic |-> ""]
Null == [kind |-> "null", url |-> "", lrc |-> "", pic |-> ""]
Value(url, lrc, pic) == [kind |-> "value", url |-> url, lrc |-> lrc, pic |-> pic]

FreeCall ==
    [pc |-> "free", fn |-> "", platform |-> "", id |-> "", quality |-> "",
     item |-> NoItem, result |-> Pending,
     sent |-> {}, served |-> FALSE, age |-> -1, entryUrl |-> "",
     wrote |-> 0, concurrent |-> FALSE]

Slots == 1..MaxCalls

\* the state the parse functions work on
Parse == [calls |-> calls, parseCache |-> parseCache, lyricsCache |-> lyricsCache]

CommitParse(p) ==
    /\ calls' = p.calls
    /\ parseCache' = p.parseCache
    /\ lyricsCache' = p.lyricsCache
    /\ UNCHANGED <<now, started, varsPlayer, storedProxy, op, reqLog, attempts,
                   kuwoChartPic, lyricsDone, varsAgg, varsPure, varsHome, varsSettings>>

\* parseSongFull line 809: `${platform}:${id}:${quality}`
CacheKey(platform, id, quality) == platform \o ":" \o id \o ":" \o quality

\* the freshness test that never expires an entry
IsFresh_NoExpiry(cached, time) == TRUE

\* Date.now() - cached.timestamp < PARSE_CACHE_TTL
IsFresh(cached, time) == time - cached.timestamp < PARSE_CACHE_TTL

\* the cache write that keeps an entry already there
CacheSet_KeepFirst(cache, key, entry) ==
    IF MapHas(cache, key) THEN cache ELSE MapSet(cache, key, entry)

\* _parseCache.set(cacheKey, { data, timestamp: Date.now() })
CacheSet(cache, key, entry) == MapSet(cache, key, entry)

\* the function returns
Return(p, c, result) == [p EXCEPT !.calls[c].pc = "done", !.calls[c].result = result]

Request(p, c, endpoint, pc) ==
    [p EXCEPT !.calls[c].sent = @ \cup {endpoint}, !.calls[c].pc = pc]

\* the return statement of parseSongFull / getLyrics once the lyric text is known
ReturnWithLyrics(p, c, lrc) ==
    LET call == p.calls[c]
    IN IF call.fn = "getLyrics" THEN Return(p, c, Value("", lrc, ""))
       ELSE Return(p, c, Value(fixUrl(call.item.url), lrc,
                               normalizeSongs(<<call.item>>, call.platform)[1].pic))

\* fetchFallbackLyrics as the parse functions await it: the cached text, or
\* the lookup at the platform's lyric endpoint
awaitFallbackLyrics(p, c) ==
    LET call == p.calls[c]
        cacheKey == LyricsKey(call.platform, call.id)
    IN IF MapHas(p.lyricsCache, cacheKey)
       THEN ReturnWithLyrics(p, c, p.lyricsCache[cacheKey])
       ELSE Request(p, c, "lyric", "lyrics")

\* the lyric lookup settles with a text or with none; the text is cached
onLyrics(p, c, lrc) ==
    LET call == p.calls[c]
    IN ReturnWithLyrics(
          [p EXCEPT !.lyricsCache = MapSet(@, LyricsKey(call.platform, call.id), lrc)],
          c, lrc)

\* the code after `await parseSongs(...)` in each function; data = <<>> stands
\* for null and for the empty list, which every caller treats alike
afterParseSongs(p, c, data) ==
    LET call == p.calls[c]
        item == IF data = <<>> THEN NoItem ELSE data[1]
        p1 == [p EXCEPT !.calls[c].item = item]
    IN IF call.fn = "parseSongs"
       THEN Return(p1, c, IF data = <<>> THEN Null ELSE Value(item.url, item.lrc, item.pic))
       ELSE IF call.fn = "getSongInfo"
       THEN Return(p1, c, IF data = <<>> THEN Null
                          ELSE Value("", "", normalizeSongs(data, call.platform)[1].pic))
       ELSE IF call.fn = "getSongUrl"
       THEN Return(p1, c, IF fixUrl(item.url) = "" THEN Null
                          ELSE Value(fixUrl(item.url), "", ""))
       ELSE IF call.fn = "getLyrics"
       THEN (IF item.lrc # "" THEN Return(p1, c, Value("", item.lrc, ""))
             ELSE awaitFallbackLyrics(p1, c))
       ELSE IF data = <<>> THEN Return(p1, c, Null)
       ELSE LET triple == <<call.platform, call.id, call.quality>>
                \* history: wrote = 2 for the last call to write its triple's
                \* entry, 1 for a call whose write was followed by another
                superseded(o) ==
                    IF <<p.calls[o].platform, p.calls[o].id, p.calls[o].quality>> = triple
                       /\ p.calls[o].wrote = 2
                    THEN 1 ELSE p.calls[o].wrote
                written == [p1 EXCEPT
                    !.parseCache = CacheSet(@, CacheKey(call.platform, call.id, call.quality),
                                            [data |-> data, timestamp |-> now,
                                             for |-> <<call.platform, call.id, call.quality>>]),
                    !.calls = [o \in Slots |->
                        IF o = c
                        THEN [p1.calls[c] EXCEPT !.wrote = 2]
                        ELSE [p1.calls[o] EXCEPT !.wrote = superseded(o)]]]
            IN IF item.lrc # "" THEN ReturnWithLyrics(written, c, item.lrc)
               ELSE awaitFallbackLyrics(written, c)

\* a parseSongs that asks the lyric endpoint along with POST /v1/parse
parseSongs_LyricsAlongside(p, c) ==
    LET call == p.calls[c]
    IN IF call.id = "" \/ call.platform = "" \/ IsTempId(call.id)
       THEN afterParseSongs(p, c, <<>>)
       ELSE Request(Request(p, c, "lyric", "parse"), c, "/v1/parse", "parse")

\* parseSongs up to its await: the guards, then POST /v1/parse
parseSongs(p, c) ==
    LET call == p.calls[c]
    IN IF call.id = "" \/ call.platform = "" \/ IsTempId(call.id)
       THEN afterParseSongs(p, c, <<>>)
       ELSE Request(p, c, "/v1/parse", "parse")

\* history: the entry written for exactly this triple, whatever its key
EntriesFor(cache, triple) == {k \in DOMAIN cache : cache[k].for = triple}

\* parseSongFull up to its first await
parseSongFull(p, c) ==
    LET call == p.calls[c]
        cacheKey == CacheKey(call.platform, call.id, call.quality)
    IN IF call.id = "" \/ call.platform = "" \/ IsTempId(call.id) THEN Return(p, c, Null)
       ELSE IF MapHas(p.parseCache, cacheKey) /\ IsFresh(p.parseCache[cacheKey], now)
       THEN LET item == p.parseCache[cacheKey].data[1]
                p1 == [p EXCEPT !.calls[c].item = item, !.calls[c].served = TRUE]
            IN IF item.lrc # "" THEN ReturnWithLyrics(p1, c, item.lrc)
               ELSE awaitFallbackLyrics(p1, c)
       ELSE parseSongs(p, c)

\* getSongUrl line 714, then parseSongs
getSongUrl(p, c) ==
    IF p.calls[c].platform \in {"", "undefined"} THEN Return(p, c, Null)
    ELSE parseSongs(p, c)

(***************************************************************************)
(* Actions of the parse functions                                          *)
(***************************************************************************)
\* a caller invokes one of the functions
StartCall(c, fn, target) ==
    LET triple == <<target[1], target[2], target[3]>>
        same == {o \in Slots \ {c} : /\ calls[o].pc \in {"parse", "lyrics"}
                                     /\ calls[o].fn = "parseSongFull" /\ fn = "parseSongFull"
                                     /\ <<calls[o].platform, calls[o].id, calls[o].quality>>
                                          = triple}
        hit == EntriesFor(parseCache, triple)
        entry == parseCache[CHOOSE k \in hit : TRUE]
        fresh == [FreeCall EXCEPT
                    !.pc = "start", !.fn = fn, !.platform = target[1], !.id = target[2],
                    !.quality = target[3], !.concurrent = same # {},
                    !.age = IF hit = {} THEN -1 ELSE now - entry.timestamp,
                    !.entryUrl = IF hit = {} THEN "" ELSE entry.data[1].url]
        \* the records of the calls that have returned are dropped
        p0 == [Parse EXCEPT !.calls = [o \in Slots |->
                  IF o = c THEN fresh
                  ELSE IF o \in same THEN [calls[o] EXCEPT !.concurrent = TRUE]
                  ELSE IF calls[o].pc = "done" THEN FreeCall
                  ELSE calls[o]]]
        p1 == IF fn = "parseSongFull" THEN parseSongFull(p0, c)
              ELSE IF fn = "getSongUrl" THEN getSongUrl(p0, c)
              ELSE parseSongs(p0, c)
    IN /\ calls[c].pc \in {"free", "done"}
       /\ started < MaxStarts
       /\ started' = started + 1
       /\ calls' = p1.calls
       /\ parseCache' = p1.parseCache
       /\ lyricsCache' = p1.lyricsCache
       /\ UNCHANGED <<now, varsPlayer, storedProxy, op, reqLog, attempts, kuwoChartPic,
                      lyricsDone, varsAgg, varsPure, varsHome, varsSettings>>

\* POST /v1/parse settles: parseSongs returns null without res or res.data,
\* else extractList(res.data)
ParseSettles(c, resp) ==
    LET data == IF resp.status # "json" \/ ~resp.hasData THEN <<>>
                ELSE extractList(ArrayOf(resp.list))
    IN /\ calls[c].pc = "parse"
       /\ CommitParse(afterParseSongs(Parse, c, data))

\* the lyric lookup settles
LyricsSettle(c, lrc) ==
    /\ calls[c].pc = "lyrics"
    /\ CommitParse(onLyrics(Parse, c, lrc))

\* time passes
Tick(t) ==
    /\ t > now
    /\ now' = t
    /\ UNCHANGED <<parseCache, calls, started, varsPlayer, varsApi, varsAgg, varsPure, varsHome, varsSettings>>

InitParse ==
    /\ parseCache = EmptyMap
    /\ now = 0
    /\ calls = [c \in Slots |-> FreeCall]
    /\ started = 0

\* the calls of a session: parseSongFull on the resolvable triples; or every
\* function on one resolvable triple and on the placeholder
FullChoices ==
    {<<"parseSongFull", target>> : target \in {t \in ParseTargets : ~IsTempId(t[2])}}
PlaceholderChoices ==
    {<<fn, target>> : fn \in ParseFns,
                      target \in {<<"netease", "1", "320k">>, <<"netease", TempId, "320k">>}}

NextParse(choices) ==
    \/ \E c \in Slots, choice \in choices : StartCall(c, choice[1], choice[2])
    \/ \E c \in Slots, resp \in ParseResponses : ParseSettles(c, resp)
    \/ \E c \in Slots, lrc \in {"", LrcString} : LyricsSettle(c, lrc)
    \/ \E t \in Instants : Tick(t)

(***************************************************************************)
(* services/api.ts: searchAggregate                                        *)
(***************************************************************************)
\* const platforms = ['netease', 'qq', 'kuwo']
AggPlatforms == <<"netease", "qq", "kuwo">>

\* the n-th song of a provider's result
Hit(platform, n) == [source |-> platform, n |-> n]
\* a provider's result of a given length
Hits(platform, len) == [n \in 1..len |-> Hit(platform, n)]

\* what one searchSongs promise settles with
Settled(state, songs) == [state |-> state, songs |-> songs]
Unsettled == Settled("pending", <<>>)
SearchOutcomes(platform) ==
    {Settled("rejected", <<>>)}
    \cup {Settled("resolved", Hits(platform, len)) : len \in 0..MaxLen}

IdleAgg ==
    [pc |-> "idle", searches |-> [j \in DOMAIN AggPlatforms |-> Unsettled],
     launched |-> {}, order |-> <<>>, outcome |-> "pending", merged |-> <<>>]

\* the promise without its rejection handler
Caught_Rethrows(settled) == settled

\* searchSongs(...).catch(() => [])
Caught(settled) ==
    IF settled.state = "rejected" THEN Settled("resolved", <<>>) ELSE settled

RECURSIVE MaxOf(_)
\* Math.max(...lengths); -Infinity for no argument ends the loop just as 0 does
MaxOf(lengths) ==
    IF lengths = <<>> THEN 0
    ELSE LET rest == MaxOf(Tail(lengths))
         IN IF Head(lengths) > rest THEN Head(lengths) ELSE rest

\* the merge that appends one provider's list after the other
Interleave_Concatenated(results) ==
    results[1] \o results[2] \o results[3]

RECURSIVE InterleaveFrom(_, _, _, _)
\* the two nested loops of searchAggregate, from (i, j) on
InterleaveFrom(results, i, j, max) ==
    IF i > max THEN <<>>
    ELSE IF j > Len(results) THEN InterleaveFrom(results, i + 1, 1, max)
    ELSE (IF i <= Len(results[j]) THEN <<results[j][i]>> ELSE <<>>)
         \o InterleaveFrom(results, i, j + 1, max)

\* searchAggregate lines 1104-1111
Interleave(results) ==
    InterleaveFrom(results, 1, 1, MaxOf([j \in DOMAIN results |-> Len(results[j])]))

\* Promise.all over the caught promises: rejected as soon as one of them is,
\* fulfilled once all are
AllSettled(searches) ==
    IF \E j \in DOMAIN searches : Caught(searches[j]).state = "rejected" THEN "rejected"
    ELSE IF \A j \in DOMAIN searches : Caught(searches[j]).state = "resolved" THEN "resolved"
    ELSE "pending"

(***************************************************************************)
(* Actions of searchAggregate                                              *)
(***************************************************************************)
\* the search page calls searchAggregate: three searchSongs calls are started
StartAggregate ==
    /\ agg.pc \in {"idle", "done"}
    /\ agg' = [IdleAgg EXCEPT !.pc = "waiting",
                              !.launched = {AggPlatforms[j] : j \in DOMAIN AggPlatforms}]
    /\ UNCHANGED <<varsPlayer, varsApi, varsParse, varsPure, varsHome, varsSettings>>

\* one of the searches settles; searchAggregate resumes once Promise.all has
SearchSettles(j, settled) ==
    LET searches == [agg.searches EXCEPT ![j] = settled]
        all == AllSettled(searches)
        a1 == [agg EXCEPT !.searches = searches, !.order = Append(@, AggPlatforms[j])]
    IN /\ agg.pc \in {"waiting", "done"}
       /\ agg.searches[j].state = "pending"
       /\ agg' = IF all = "pending" \/ agg.pc = "done" THEN a1
                 ELSE IF all = "rejected"
                 THEN [a1 EXCEPT !.pc = "done", !.outcome = "rejected"]
                 ELSE [a1 EXCEPT !.pc = "done", !.outcome = "resolved",
                                 !.merged = Interleave([k \in DOMAIN searches |->
                                                           Caught(searches[k]).songs])]
       /\ UNCHANGED <<varsPlayer, varsApi, varsParse, varsPure, varsHome, varsSettings>>

InitAgg == agg = IdleAgg

NextAggregate ==
    \/ StartAggregate
    \/ \E j \in DOMAIN AggPlatforms :
          \E settled \in SearchOutcomes(AggPlatforms[j]) : SearchSettles(j, settled)

(***************************************************************************)
(* services/api.ts: the helpers that read JSON payloads                    *)
(***************************************************************************)
\* a JavaScript value: undefined, null, a number, a string, an array, an
\* object (a function from its keys to values)
Undef == [t |-> "undefined"]
JsNull == [t |-> "null"]
Num(n) == [t |-> "number", n |-> n]
Str(str) == [t |-> "string", s |-> str]
Arr(items) == [t |-> "array", items |-> items]
Obj(fields) == [t |-> "object", f |-> fields]
\* an uncaught TypeError in place of a result
Thrown == [t |-> "TypeError"]

\* if (v), !v, v || w
Truthy(v) ==
    IF v.t \in {"undefined", "null"} THEN FALSE
    ELSE IF v.t = "number" THEN v.n # 0
    ELSE IF v.t = "string" THEN v.s # ""
    ELSE TRUE
Or(v, w) == IF Truthy(v) THEN v ELSE w

\* v?.key (v.key where v is known to be truthy)
Get(v, key) == IF v.t = "object" /\ key \in DOMAIN v.f THEN v.f[key] ELSE Undef
\* v?.a?.b?.c
RECURSIVE GetPath(_, _)
GetPath(v, path) == IF path = <<>> THEN v ELSE GetPath(Get(v, Head(path)), Tail(path))

\* arr[0]
First(arr) == IF Len(arr.items) > 0 THEN arr.items[1] ELSE Undef

\* the song list of a group: g.toplist || g.topList || g.list || []
GroupSongs(g) == Or(Get(g, "toplist"), Or(Get(g, "topList"), Or(Get(g, "list"), Arr(<<>>))))

\* flatMap over the groups: an array is spliced in, any other value appended
RECURSIVE FlatMapGroups(_)
FlatMapGroups(groups) ==
    IF groups = <<>> THEN <<>>
    ELSE LET r == GroupSongs(Head(groups))
         IN (IF r.t = "array" THEN r.items ELSE <<r>>) \o FlatMapGroups(Tail(groups))

\* the flatten that keeps the first group only
flattenGroup_FirstGroupOnly(groupArr) ==
    IF groupArr.t # "array"
       \/ \E k \in DOMAIN groupArr.items : groupArr.items[k].t \in {"null", "undefined"}
    THEN Thrown
    ELSE Arr(FlatMapGroups(IF groupArr.items = <<>> THEN <<>> ELSE <<Head(groupArr.items)>>))

\* flattenGroup (lines 328-330); flatMap of a non-array and a property read
\* on a null group throw
flattenGroup(groupArr) ==
    IF groupArr.t # "array"
       \/ \E k \in DOMAIN groupArr.items : groupArr.items[k].t \in {"null", "undefined"}
    THEN Thrown
    ELSE Arr(FlatMapGroups(groupArr.items))

\* first && (first.toplist || first.topList || first.list || first.groupName)
LooksGrouped(first) ==
    Truthy(first) /\ Truthy(Or(Get(first, "toplist"), Or(Get(first, "topList"),
                                 Or(Get(first, "list"), Get(first, "groupName")))))

priorityKeys == <<"tracks", "songs", "list", "songlist", "toplist", "topList", "data",
                  "result", "results", "hotSongs">>

\* the first priority key under which obj holds an array, 0 if none
FirstArrayKey(obj) ==
    LET hits == {i \in DOMAIN priorityKeys : Get(obj, priorityKeys[i]).t = "array"}
    IN IF hits = {} THEN 0 ELSE CHOOSE i \in hits : \A j \in hits : i <= j

\* an array found under a key or as data.data: flattened if it looks grouped
ArrayOrGroups(arr) == IF LooksGrouped(First(arr)) THEN flattenGroup(arr) ELSE arr

\* extractList (lines 323-388) on a JSON value
ExtractList(data) ==
    LET inner == Get(data, "data")
        k1 == FirstArrayKey(data)
        k2 == FirstArrayKey(inner)
    IN IF ~Truthy(data) THEN Arr(<<>>)
       ELSE IF Truthy(Get(inner, "groupList")) THEN flattenGroup(Get(inner, "groupList"))
       ELSE IF Truthy(Get(inner, "group")) THEN flattenGroup(Get(inner, "group"))
       ELSE IF Truthy(Get(data, "groupList")) THEN flattenGroup(Get(data, "groupList"))
       ELSE IF Truthy(Get(data, "group")) THEN flattenGroup(Get(data, "group"))
       ELSE IF Truthy(GetPath(data, <<"toplist", "data", "songInfoList">>))
       THEN GetPath(data, <<"toplist", "data", "songInfoList">>)
       ELSE IF Truthy(GetPath(data, <<"req", "data", "body", "song", "list">>))
       THEN GetPath(data, <<"req", "data", "body", "song", "list">>)
       ELSE IF data.t = "array" THEN ArrayOrGroups(data)
       ELSE IF k1 # 0 THEN ArrayOrGroups(Get(data, priorityKeys[k1]))
       ELSE IF Truthy(inner) /\ inner.t = "array" THEN ArrayOrGroups(inner)
       ELSE IF Truthy(inner) /\ k2 # 0 THEN Get(inner, priorityKeys[k2])
       ELSE IF Truthy(Get(data, "id")) /\ Truthy(Get(data, "name")) THEN Arr(<<data>>)
       ELSE Arr(<<>>)

\* ---- findId, findImage, normalizeSongs ----
\* String(v)
RECURSIVE JsString(_)
RECURSIVE JoinWith(_, _)
JoinWith(items, sep) ==
    IF items = <<>> THEN ""
    ELSE LET h == IF Head(items).t \in {"undefined", "null"} THEN "" ELSE JsString(Head(items))
         IN IF Len(items) = 1 THEN h ELSE h \o sep \o JoinWith(Tail(items), sep)
JsString(v) ==
    IF v.t = "string" THEN v.s
    ELSE IF v.t = "number" THEN ToString(v.n)
    ELSE IF v.t = "array" THEN JoinWith(v.items, ",")
    ELSE IF v.t = "object" THEN "[object Object]"
    ELSE v.t

\* the first of the paths at which item holds a truthy value, as a string;
\* undefined if there is none
FirstTruthy(item, paths) ==
    LET hits == {i \in DOMAIN paths : Truthy(GetPath(item, paths[i]))}
    IN IF hits = {} THEN Undef
       ELSE Str(JsString(GetPath(item, paths[CHOOSE i \in hits : \A j \in hits : i <= j])))

\* the identity fields findId reads, in its order, for a platform
IdPaths_NumericFirst(platform) ==
    (IF platform = "qq"
     THEN <<<<"id">>, <<"songmid">>, <<"mid">>, <<"file", "media_mid">>, <<"topId">>>>
     ELSE IF platform = "kuwo" THEN <<<<"rid">>, <<"musicrid">>>> ELSE <<>>)
    \o <<<<"id">>, <<"ID">>>>

IdPaths(platform) ==
    (IF platform = "qq"
     THEN <<<<"songmid">>, <<"mid">>, <<"file", "media_mid">>, <<"topId">>, <<"id">>>>
     ELSE IF platform = "kuwo" THEN <<<<"rid">>, <<"musicrid">>>> ELSE <<>>)
    \o <<<<"id">>, <<"ID">>>>

\* findId (lines 261-284)
findId(item, platform) ==
    IF ~Truthy(item) THEN Undef ELSE FirstTruthy(item, IdPaths(platform))

\* findImage (lines 287-301): the first key that holds a non-empty string
ImageKeys == <<"picUrl", "coverImgUrl", "pic", "pic_v12", "frontPicUrl", "headPicUrl",
               "img", "cover", "imgUrl", "album_pic", "albumpic">>
findImage(item) ==
    LET hits == {i \in DOMAIN ImageKeys :
                    Truthy(Get(item, ImageKeys[i])) /\ Get(item, ImageKeys[i]).t = "string"}
    IN IF ~Truthy(item) THEN Str("")
       ELSE IF hits # {} THEN Get(item, ImageKeys[CHOOSE i \in hits : \A j \in hits : i <= j])
       ELSE IF Truthy(Get(item, "mac_detail")) /\ Truthy(GetPath(item, <<"mac_detail", "pic_v12">>))
       THEN GetPath(item, <<"mac_detail", "pic_v12">>)
       ELSE Str("")

\* arr.map(a => a.name).join('/'), on an array of objects
NamesOf(arr) == Str(JoinWith([k \in DOMAIN arr.items |-> Get(arr.items[k], "name")], "/"))

\* lines 402-410: the artist of a record
ArtistOf(it) ==
    IF Truthy(Get(it, "artist")) THEN Get(it, "artist")
    ELSE IF Get(it, "ar").t = "array" THEN NamesOf(Get(it, "ar"))
    ELSE IF Get(it, "artists").t = "array" THEN NamesOf(Get(it, "artists"))
    ELSE IF Get(it, "singer").t = "array" THEN NamesOf(Get(it, "singer"))
    ELSE IF Get(it, "singerList").t = "array" THEN NamesOf(Get(it, "singerList"))
    ELSE IF Truthy(Get(it, "artist_name")) THEN Get(it, "artist_name")
    ELSE Get(it, "artist")

\* lines 413-422: the album of a record
AlbumOf(it) ==
    LET album == Get(it, "album")
    IN IF album.t \in {"object", "array"} /\ Truthy(Get(album, "name")) THEN Get(album, "name")
       ELSE IF ~Truthy(album) /\ Truthy(Get(it, "album_name")) THEN Get(it, "album_name")
       ELSE IF ~Truthy(album) /\ Truthy(Get(it, "albumname")) THEN Get(it, "albumname")
       ELSE IF ~Truthy(album) /\ Truthy(Get(it, "albumName")) THEN Get(it, "albumName")
       ELSE album

\* fixUrl on a value: '' for anything but a non-empty string
FixUrl(v) == IF v.t = "string" /\ v.s # "" THEN Str(fixUrl(v.s)) ELSE Str("")

\* lines 425-439: the cover of a record
PicOf(it, platform) ==
    LET p1 == findImage(it)
        p2 == IF ~Truthy(p1) /\ Truthy(GetPath(it, <<"al", "picUrl">>))
              THEN GetPath(it, <<"al", "picUrl">>) ELSE p1
        p3 == IF ~Truthy(p2) /\ Truthy(GetPath(it, <<"album", "picUrl">>))
              THEN GetPath(it, <<"album", "picUrl">>) ELSE p2
        mid == Or(Get(it, "albummid"), Or(GetPath(it, <<"album", "mid">>), Get(it, "album_mid")))
        p4 == IF ~Truthy(p3) /\ platform = "qq" /\ Truthy(mid)
              THEN Str("https://y.gtimg.cn/music/photo_new/T002R300x300M000"
                       \o JsString(mid) \o ".jpg")
              ELSE p3
    IN FixUrl(p4)

\* the Song without the placeholders for a missing name, artist, album, cover
SongOfItem_NoDefaults(item, platform) ==
    LET it == IF Truthy(Get(item, "data")) THEN Get(item, "data") ELSE item
        id == findId(it, platform)
    IN [source |-> Str(platform),
        id |-> IF id # Undef THEN id ELSE Str(TempId),
        name |-> Or(Get(it, "name"), Or(Get(it, "title"), Get(it, "songname"))),
        artist |-> ArtistOf(it),
        album |-> AlbumOf(it),
        pic |-> PicOf(it, platform),
        isValidId |-> id # Undef]

\* the body of normalizeSongs' map for a truthy item (lines 396-451)
SongOfItem(item, platform) ==
    LET it == IF Truthy(Get(item, "data")) THEN Get(item, "data") ELSE item
        id == findId(it, platform)
    IN [source |-> Str(platform),
        id |-> IF id # Undef THEN id ELSE Str(TempId),
        name |-> Str(JsString(Or(Get(it, "name"), Or(Get(it, "title"),
                                    Or(Get(it, "songname"), Str("Unknown Song")))))),
        artist |-> Str(JsString(Or(ArtistOf(it), Str("Unknown Artist")))),
        album |-> Str(JsString(Or(AlbumOf(it), Str("")))),
        pic |-> Str(JsString(Or(PicOf(it, platform), Str("")))),
        isValidId |-> id # Undef]

\* normalizeSongs (lines 391-453) on a JSON value: falsy items are dropped
RECURSIVE MapItems(_, _)
MapItems(items, platform) ==
    IF items = <<>> THEN <<>>
    ELSE (IF Truthy(Head(items)) THEN <<SongOfItem(Head(items), platform)>> ELSE <<>>)
         \o MapItems(Tail(items), platform)
NormalizeSongs(list, platform) ==
    IF list.t # "array" THEN <<>> ELSE MapItems(list.items, platform)

\* ---- the payloads extractList is applied to ----
\* a track record {id: n}
TrackOf(n) == Obj([id |-> Num(n)])
TrackLists == {<<>>, <<TrackOf(1), TrackOf(2)>>, <<TrackOf(3)>>}

\* a group: its song list under one of the three keys, or a group that has
\* a name and no song list
GroupKeys == {"list", "toplist", "topList"}
GroupShapes ==
    {[key |-> k, songs |-> ss] : k \in GroupKeys, ss \in TrackLists}
    \cup {[key |-> "groupName", songs |-> <<>>]}
GroupOf(shape) ==
    IF shape.key = "groupName" THEN Obj([groupName |-> Str("g")])
    ELSE Obj(shape.key :> Arr(shape.songs))

\* where a payload holds its group array
GroupPaths == {<<"group">>, <<"groupList">>, <<"data", "group">>, <<"data", "groupList">>}

\* up to MaxGroups groups
MaxGroups == 2
GroupArrays == UNION {[1..n -> GroupShapes] : n \in 0..MaxGroups}

RECURSIVE ConcatSongs(_)
ConcatSongs(shapes) ==
    IF shapes = <<>> THEN <<>> ELSE Head(shapes).songs \o ConcatSongs(Tail(shapes))

\* a grouped-chart payload, with or without a first-level `songs` array next
\* to the groups.  A sample carries, next to the payload, how it was built:
\* the groups, and what each rule that matches the payload yields, in the
\* order of the rules.
GroupedSample(path, shapes, extra) ==
    LET groups == Arr([k \in DOMAIN shapes |-> GroupOf(shapes[k])])
        top == IF Len(path) = 1 THEN path[1] :> groups
               ELSE "data" :> Obj(path[2] :> groups)
    IN [data |-> Obj(IF extra = <<>> THEN top ELSE top @@ ("songs" :> Arr(extra))),
        grouped |-> TRUE, shapes |-> shapes,
        yields |-> IF extra = <<>> THEN <<ConcatSongs(shapes)>>
                   ELSE <<ConcatSongs(shapes), extra>>]

\* an object with arrays under two priority keys
KeyPairs == {<<1, 2>>, <<1, 10>>, <<2, 3>>}
KeyedSample(pair, l1, l2) ==
    [data |-> Obj((priorityKeys[pair[1]] :> Arr(l1)) @@ (priorityKeys[pair[2]] :> Arr(l2))),
     grouped |-> FALSE, shapes |-> <<>>, yields |-> <<l1, l2>>]

ExtractSamples ==
    {GroupedSample(path, shapes, extra) :
         path \in GroupPaths, shapes \in GroupArrays, extra \in {<<>>, <<TrackOf(4)>>}}
    \cup {KeyedSample(pair, l1, l2) : pair \in KeyPairs, l1 \in TrackLists, l2 \in TrackLists}

IdleApplied == [fn |-> "none"]

\* extractList is applied to a payload
CallExtractList(sample) ==
    /\ applied = IdleApplied
    /\ applied' = [fn |-> "extractList", sample |-> sample, out |-> ExtractList(sample.data)]
    /\ UNCHANGED <<varsPlayer, varsApi, varsParse, varsAgg, varsHome, varsSettings>>

InitPure == applied = IdleApplied

NextExtract == \E sample \in ExtractSamples : CallExtractList(sample)

\* ---- the records findId and normalizeSongs are applied to ----
\* identity fields of a record; ids[p] is the identity on platform p ("" if
\* the record has none there)
OnAll(id) == [p \in Platforms |-> id]
QqExtras ==
    {EmptyMap, [mid |-> Str("m1")],
     [mid |-> Str("m1"), topId |-> Num(4), file |-> Obj([media_mid |-> Str("f2")])]}
QqIdFields ==
    {[f |-> x @@ [songmid |-> Str("003aBc"), id |-> Num(7)],
      ids |-> [OnAll("7") EXCEPT !["qq"] = "003aBc"], both |-> TRUE] : x \in QqExtras}
IdFields ==
    QqIdFields \cup
    {[f |-> EmptyMap, ids |-> OnAll(""), both |-> FALSE],
     [f |-> [id |-> Num(5)], ids |-> OnAll("5"), both |-> FALSE],
     [f |-> [id |-> Str("x1")], ids |-> OnAll("x1"), both |-> FALSE],
     [f |-> [mid |-> Str("m1"), id |-> Num(7)],
      ids |-> [OnAll("7") EXCEPT !["qq"] = "m1"], both |-> FALSE],
     [f |-> [rid |-> Num(9)], ids |-> [OnAll("") EXCEPT !["kuwo"] = "9"], both |-> FALSE]}
\* the other fields; given tells that the record carries the datum
NameFields ==
    {[f |-> EmptyMap, given |-> FALSE], [f |-> [name |-> Str("")], given |-> FALSE],
     [f |-> [name |-> Str("N")], given |-> TRUE],
     [f |-> [songname |-> Num(1999)], given |-> TRUE]}
ArtistFields ==
    {[f |-> EmptyMap, given |-> FALSE], [f |-> [singer |-> Arr(<<>>)], given |-> FALSE],
     [f |-> [artist |-> Str("A")], given |-> TRUE],
     [f |-> [ar |-> Arr(<<Obj([name |-> Str("a1")]), Obj([name |-> Str("a2")])>>)],
      given |-> TRUE],
     [f |-> [artist_name |-> Str("AN")], given |-> TRUE]}
AlbumFields ==
    {[f |-> EmptyMap, given |-> FALSE, cover |-> FALSE],
     [f |-> [album |-> JsNull], given |-> FALSE, cover |-> FALSE],
     [f |-> [album |-> Str("Al")], given |-> TRUE, cover |-> FALSE],
     [f |-> [album |-> Obj([name |-> Str("AlN"), picUrl |-> Str("//p1.music.126.net/a.jpg")])],
      given |-> TRUE, cover |-> TRUE],
     [f |-> [albumname |-> Str("an")], given |-> TRUE, cover |-> FALSE]}
PicFields ==
    {[f |-> EmptyMap, given |-> FALSE], [f |-> [pic |-> Str("")], given |-> FALSE],
     [f |-> [picUrl |-> Str("http://p1.music.126.net/c.jpg")], given |-> TRUE],
     [f |-> [pic |-> Num(3)], given |-> TRUE],
     [f |-> [al |-> Obj([picUrl |-> Str(" https://p2.music.126.net/d.jpg ")])], given |-> TRUE],
     [f |-> [albummid |-> Str("m9")], given |-> TRUE]}
\* a record, bare or wrapped in data
RecordSamples ==
    {[item |-> IF wrapped THEN Obj([data |-> Obj(i.f @@ n.f @@ ar.f @@ al.f @@ pc.f)])
               ELSE Obj(i.f @@ n.f @@ ar.f @@ al.f @@ pc.f),
      ids |-> i.ids, both |-> i.both, name |-> n.given, artist |-> ar.given,
      album |-> al.given, pic |-> pc.given \/ al.cover, wrapped |-> wrapped] :
        i \in IdFields, n \in NameFields, ar \in ArtistFields, al \in AlbumFields,
        pc \in PicFields, wrapped \in BOOLEAN}
\* what else a list holds: nothing, null, a number, a string
Scalars == {JsNull, Undef, Num(0), Num(12), Str(""), Str("s")}
ListSamples ==
    {[list |-> Arr(<<r.item>>), recs |-> <<r>>] : r \in RecordSamples}
    \cup {[list |-> Arr(<<x, r.item>>), recs |-> (IF Truthy(x) THEN <<x>> ELSE <<>>) \o <<r>>] :
            x \in Scalars, r \in {q \in RecordSamples : q.both \/ q.item = Obj(EmptyMap)}}
    \cup {[list |-> x, recs |-> <<>>] : x \in Scalars \cup {Obj(EmptyMap)}}
    \cup {[list |-> Arr(<<>>), recs |-> <<>>]}

CallFindId(rec, platform) ==
    /\ applied = IdleApplied
    /\ applied' = [fn |-> "findId", sample |-> rec, platform |-> platform,
                   out |-> findId(rec.item, platform)]
    /\ UNCHANGED <<varsPlayer, varsApi, varsParse, varsAgg, varsHome, varsSettings>>

CallNormalizeSongs(sample, platform) ==
    /\ applied = IdleApplied
    /\ applied' = [fn |-> "normalizeSongs", sample |-> sample, platform |-> platform,
                   out |-> NormalizeSongs(sample.list, platform)]
    /\ UNCHANGED <<varsPlayer, varsApi, varsParse, varsAgg, varsHome, varsSettings>>

\* one application in a behaviour
NextNormalize ==
    /\ applied = IdleApplied
    /\ \/ \E rec \in {r \in RecordSamples : ~r.wrapped /\ ~(r.name \/ r.artist \/ r.album)},
             platform \in Platforms : CallFindId(rec, platform)
       \/ \E sample \in ListSamples, platform \in Platforms :
             CallNormalizeSongs(sample, platform)

(***************************************************************************)
(* executeMethod: one turn of the proxy loop from the unwrapped payload on *)
(* (lines 613-673), on JSON values                                         *)
(***************************************************************************)
\* extractRawTracks (lines 304-320)
RawTrackPaths ==
    <<<<"result", "tracks">>, <<"playlist", "tracks">>, <<"result", "songs">>,
      <<"toplist", "data", "songInfoList">>, <<"req", "data", "body", "song", "list">>,
      <<"data", "songlist">>, <<"data", "song", "list">>, <<"musiclist">>, <<"abslist">>>>
ExtractRawTracks(data) ==
    LET hits == {i \in DOMAIN RawTrackPaths : Truthy(GetPath(data, RawTrackPaths[i]))}
    IN IF ~Truthy(data) \/ hits = {} THEN Arr(<<>>)
       ELSE GetPath(data, RawTrackPaths[CHOOSE i \in hits : \A j \in hits : i <= j])

\* line 646: String(rt.id || rt.rid || rt.songid || rt.songmid || rt.MUSICRID || '')
\*           .replace('MUSIC_', '')
RawId(rt) ==
    LET v == Or(Get(rt, "id"), Or(Get(rt, "rid"), Or(Get(rt, "songid"),
                Or(Get(rt, "songmid"), Or(Get(rt, "MUSICRID"), Str(""))))))
    IN ReplaceFirst(JsString(v), "MUSIC_", "")

\* line 651: idToRaw.get(String(item.id)) || rawTracks[i]; of two raw tracks
\* with one id the Map keeps the later
RawFor(item, i, rawTracks) ==
    LET key == JsString(Get(item, "id"))
        same == {k \in DOMAIN rawTracks : RawId(rawTracks[k]) # "" /\ RawId(rawTracks[k]) = key}
    IN IF same # {} /\ Truthy(rawTracks[CHOOSE k \in same : \A j \in same : j <= k])
       THEN rawTracks[CHOOSE k \in same : \A j \in same : j <= k]
       ELSE IF i \in DOMAIN rawTracks THEN rawTracks[i] ELSE Undef

\* lines 654-659: the cover of a raw track
RawPic(raw) ==
    LET pic == Or(GetPath(raw, <<"al", "picUrl">>), Or(GetPath(raw, <<"album", "picUrl">>),
                  Or(findImage(raw), Str(""))))
        mid == Or(Get(raw, "albummid"), Or(GetPath(raw, <<"album", "mid">>),
                  Get(raw, "album_mid")))
    IN IF ~Truthy(pic) /\ Truthy(mid)
       THEN Str("https://y.gtimg.cn/music/photo_new/T002R300x300M000" \o JsString(mid) \o ".jpg")
       ELSE pic

\* lines 649-660: the loop body for transformed[i]
BackfillItem(item, i, rawTracks) ==
    LET raw == RawFor(item, i, rawTracks)
        pic == RawPic(raw)
    IN IF ~Truthy(raw) \/ ~Truthy(pic) THEN item
       ELSE Obj(("pic" :> pic) @@ item.f)

\* lines 639-663: the cover backfill on the transformed value
CoverBackfill(transformed, rawData) ==
    LET rawTracks == ExtractRawTracks(rawData)
    IN IF transformed.t = "array" /\ Len(transformed.items) > 0
          /\ ~Truthy(Get(transformed.items[1], "pic"))
          /\ rawTracks.t = "array" /\ Len(rawTracks.items) > 0
       THEN Arr([i \in DOMAIN transformed.items |->
                    BackfillItem(transformed.items[i], i, rawTracks.items)])
       ELSE transformed

\* how a turn ends: `continue`, or `return value`
Continue == [kind |-> "continue", value |-> Undef]
ReturnValue(value) == [kind |-> "return", value |-> value]

\* a failed transform that sends the loop to the next proxy
OnTransformFailure_NextProxy(rawData) == Continue

\* lines 634-636 and 667-671: `return rawData`
OnTransformFailure(rawData) == ReturnValue(rawData)

\* lines 619-626 on a JSON value
IsGarbageJson(rawData) ==
    \/ rawData.t = "array" /\ Len(rawData.items) > 0
          /\ rawData.items[1] \in {Str("-1"), Num(-1)}
    \/ Get(rawData, "code") = Num(-447)

\* lines 613-673; tr is what compiling and calling the descriptor's transform
\* on rawData ends in: an exception, or a value
ExecTurn(hasTransform, rawData, tr) ==
    IF ~Truthy(rawData) \/ IsGarbageJson(rawData) THEN Continue
    ELSE IF ~hasTransform THEN ReturnValue(rawData)
    ELSE IF tr.threw \/ ~Truthy(tr.value) THEN OnTransformFailure(rawData)
    ELSE ReturnValue(CoverBackfill(tr.value, rawData))

\* ---- payloads and transform outcomes ----
Cover(n) == "http://img.host/" \o n \o ".jpg"
RawPayloads ==
    {[data |-> Obj([result |-> Obj([songs |-> Arr(<<
                     Obj([id |-> Num(1), name |-> Str("a"),
                          al |-> Obj([picUrl |-> Str(Cover("r1"))])]),
                     Obj([id |-> Num(2), name |-> Str("b"),
                          album |-> Obj([picUrl |-> Str(Cover("r2"))])])>>)])]),
      ids |-> <<Num(1), Num(2)>>, usable |-> TRUE],
     [data |-> Obj([abslist |-> Arr(<<
                     Obj([MUSICRID |-> Str("MUSIC_7"), pic |-> Str(Cover("r7"))]),
                     Obj([MUSICRID |-> Str("MUSIC_8")])>>)]),
      ids |-> <<Str("7"), Str("8")>>, usable |-> TRUE],
     [data |-> Obj([req |-> Obj([data |-> Obj([body |-> Obj([song |-> Obj([list |-> Arr(<<
                     Obj([songmid |-> Str("m1"), albummid |-> Str("a1")]),
                     Obj([songmid |-> Str("m2"), album |-> Obj([mid |-> Str("a2")])])>>)])])])])]),
      ids |-> <<Str("m1"), Str("m2")>>, usable |-> TRUE],
     [data |-> Arr(<<Obj([id |-> Num(1), pic |-> Str(Cover("r1"))])>>),
      ids |-> <<Num(1), Num(2)>>, usable |-> TRUE],
     [data |-> Obj([code |-> Num(200)]), ids |-> <<Num(1), Num(2)>>, usable |-> TRUE],
     [data |-> Arr(<<Str("-1")>>), ids |-> <<Num(1), Num(2)>>, usable |-> FALSE],
     [data |-> Obj([code |-> Num(-447)]), ids |-> <<Num(1), Num(2)>>, usable |-> FALSE],
     [data |-> JsNull, ids |-> <<Num(1), Num(2)>>, usable |-> FALSE]}
\* a transformed track: id and name, with a cover of its own or none
Track(id, own) ==
    IF own = "" THEN Obj([id |-> id, name |-> Str("t")])
    ELSE Obj([id |-> id, name |-> Str("t"), pic |-> Str(Cover(own))])
Falsy == {Undef, JsNull, Str(""), Num(0)}
TransformOutcomes(ids) ==
    {[threw |-> TRUE, value |-> Undef]}
    \cup {[threw |-> FALSE, value |-> v] : v \in Falsy}
    \cup {[threw |-> FALSE, value |-> v] :
            v \in {Arr(<<>>), Obj([list |-> Arr(<<Track(ids[1], "")>>)])}
                  \cup {Arr(<<Track(ids[1], o1), Track(ids[2], o2)>>) :
                           o1 \in {"", "own1"}, o2 \in {"", "own2"}}
                  \cup {Arr(<<Track(ids[2], ""), Track(ids[1], o2)>>) : o2 \in {"", "own2"}}
                  \cup {Arr(<<Track(Str("x"), ""), Track(Str("y"), o2), Track(Str("z"), "")>>) :
                           o2 \in {"", "own2"}}}

CallExecTurn(hasTransform, raw, tr) ==
    /\ applied = IdleApplied
    /\ applied' = [fn |-> "execTurn", hasTransform |-> hasTransform, raw |-> raw, tr |-> tr,
                   out |-> ExecTurn(hasTransform, raw.data, tr)]
    /\ UNCHANGED <<varsPlayer, varsApi, varsParse, varsAgg, varsHome, varsSettings>>

NextTransform ==
    /\ applied = IdleApplied
    /\ \E hasTransform \in BOOLEAN, raw \in RawPayloads :
          \E tr \in TransformOutcomes(raw.ids) : CallExecTurn(hasTransform, raw, tr)

(***************************************************************************)
(* executeMethod: the request handed to fetch (lines 538-573)              *)
(***************************************************************************)
FORBIDDEN_HEADERS ==
    {"user-agent", "referer", "host", "origin", "cookie", "sec-fetch-dest",
     "sec-fetch-mode", "sec-fetch-site", "connection", "content-length"}

\* k.toLowerCase()
UpperCase == "ABCDEFGHIJKLMNOPQRSTUVWXYZ"
LowerCase == "abcdefghijklmnopqrstuvwxyz"
LowerChar(c) ==
    LET at == {i \in 1..Len(UpperCase) : SubSeq(UpperCase, i, i) = c}
    IN IF at = {} THEN c ELSE SubSeq(LowerCase, CHOOSE i \in at : TRUE, CHOOSE i \in at : TRUE)
RECURSIVE toLowerCase(_)
toLowerCase(str) ==
    IF str = "" THEN ""
    ELSE LowerChar(SubSeq(str, 1, 1)) \o toLowerCase(SubSeq(str, 2, Len(str)))

\* a header filter that compares the names as they are written
SafeHeaders_CaseSensitive(headers) ==
    [k \in {h \in DOMAIN headers : h \notin FORBIDDEN_HEADERS} |-> headers[k]]

\* lines 538-545: safeHeaders
SafeHeaders(headers) ==
    [k \in {h \in DOMAIN headers : toLowerCase(h) \notin FORBIDDEN_HEADERS} |-> headers[k]]

\* lines 560-572: fetchOpts; a body of the descriptor is attached, and then
\* Content-Type is set unless safeHeaders holds a non-empty one
FetchOpts(config) ==
    LET safe == SafeHeaders(config.headers)
        typed == IF "Content-Type" \in DOMAIN safe /\ safe["Content-Type"] # "" THEN safe
                 ELSE ("Content-Type" :> "application/json") @@ safe
    IN IF Truthy(config.body)
       THEN [method |-> config.method, headers |-> typed, body |-> config.body]
       ELSE [method |-> config.method, headers |-> safe, body |-> Undef]

\* fetch(url, init) rejects with a TypeError, before anything is sent, when
\* init carries a body and the method is GET or HEAD
FetchRejects(opts) == opts.body # Undef /\ opts.method \in {"GET", "HEAD"}

\* the proxy loop (lines 549-676) for one descriptor, with every proxy
\* answering a usable payload: the requests that left, the turns that ended
\* in the catch, what executeMethod resolves to
SendRequests(config, proxies) ==
    LET opts == FetchOpts(config)
    IN IF FetchRejects(opts)
       THEN [opts |-> opts, requests |-> <<>>, failed |-> Len(proxies), result |-> "null"]
       ELSE [opts |-> opts, requests |-> <<[via |-> proxies[1], opts |-> opts]>>,
             failed |-> 0, result |-> "data"]

\* the descriptors: method, body, headers
HeaderNames ==
    {"User-Agent", "referer", "COOKIE", "Content-Length", "Sec-Fetch-Mode", "Host",
     "Origin", "X-Token", "Accept", "Refererx", "Content-Type", "content-type"}
HeaderSets == {hs \in SUBSET HeaderNames : Cardinality(hs) <= 2}
HeaderValues(name) == IF name = "Content-Type" THEN {"text/plain", ""} ELSE {"v:" \o name}
HeaderMaps == UNION {{h \in [hs -> {"text/plain", ""} \cup {"v:" \o n : n \in hs}] :
                        \A n \in hs : h[n] \in HeaderValues(n)} : hs \in HeaderSets}
Bodies == {Undef, Str(""), Obj([keyword |-> Str("abba"), page |-> Num(1)])}
Configs == [method : {"GET", "HEAD", "POST"}, body : Bodies, headers : HeaderMaps]

CallSendRequests(config, stored) ==
    /\ applied = IdleApplied
    /\ applied' = [fn |-> "sendRequests", config |-> config, stored |-> stored,
                   out |-> SendRequests(config, ProxyList(stored))]
    /\ UNCHANGED <<varsPlayer, varsApi, varsParse, varsAgg, varsHome, varsSettings>>

NextRequest ==
    /\ applied = IdleApplied
    /\ \E config \in Configs, stored \in StoredChoices : CallSendRequests(config, stored)

(***************************************************************************)
(* Persisted and imported data: getLocal, the library's load effect, the   *)
(* search history, importData                                              *)
(***************************************************************************)
\* JSON.parse on the texts of the samples; any other text is a SyntaxError
SongJson(id) == Obj([id |-> Str(id), name |-> Str("n" \o id)])
Parsable ==
    ("[]" :> Arr(<<>>)) @@ ("null" :> JsNull) @@ ("{}" :> Obj(EmptyMap))
    @@ ("\"loop\"" :> Str("loop")) @@ ("\"128k\"" :> Str("128k"))
    @@ ("{\"id\":\"1\",\"name\":\"n1\"}" :> SongJson("1"))
    @@ ("[{\"id\":\"1\",\"name\":\"n1\"}]" :> Arr(<<SongJson("1")>>))
    @@ ("[\"abba\"]" :> Arr(<<Str("abba")>>))
    @@ ("{\"favorites\":[{\"id\":\"1\",\"name\":\"n1\"}]}"
          :> Obj([favorites |-> Arr(<<SongJson("1")>>)]))
    @@ ("{\"favorites\":[],\"playlists\":[]}"
          :> Obj([favorites |-> Arr(<<>>), playlists |-> Arr(<<>>)]))
JSONparse(text) == IF text \in DOMAIN Parsable THEN Parsable[text] ELSE Thrown

\* getLocal (PlayerContext.tsx lines 33-40)
getLocal(item, def) ==
    IF Truthy(item) /\ JSONparse(item.s) # Thrown THEN JSONparse(item.s) ELSE def

\* the keys PlayerProvider reads at construction and their defaults (lines 44-51)
PlayerKeys ==
    [tunefree_current_song |-> JsNull, tunefree_queue |-> Arr(<<>>),
     tunefree_play_mode |-> Str("sequence"), tunefree_quality |-> Str("320k")]

\* what localStorage.getItem gives: null, or the text stored
Malformed == {"", "{oops", "[{\"id\":\"1\","}
StoredItems == {JsNull} \cup {Str(t) : t \in Malformed \cup DOMAIN Parsable}
ListItems == {JsNull} \cup {Str(t) : t \in Malformed \cup {"[]", "[{\"id\":\"1\",\"name\":\"n1\"}]"}}

ReadPlayerKey(key, item) ==
    /\ applied = IdleApplied
    /\ applied' = [fn |-> "getLocal", key |-> key, item |-> item,
                   out |-> getLocal(item, PlayerKeys[key]), threw |-> FALSE]
    /\ UNCHANGED <<varsPlayer, varsApi, varsParse, varsAgg, varsHome, varsSettings>>

\* LibraryProvider's load effect (LibraryContext.tsx lines 38-43): favorites
\* and playlists start as [] (lines 32-33); a JSON.parse that throws ends the
\* effect with the exception
LoadLibrary(storedFavs, storedPlaylists) ==
    LET favs == IF Truthy(storedFavs) THEN JSONparse(storedFavs.s) ELSE Undef
        lists == IF Truthy(storedPlaylists) THEN JSONparse(storedPlaylists.s) ELSE Undef
    IN /\ applied = IdleApplied
       /\ applied' = [fn |-> "loadLibrary", item |-> storedFavs, item2 |-> storedPlaylists,
                      out |-> [favorites |-> IF favs \in {Undef, Thrown} THEN Arr(<<>>) ELSE favs,
                               playlists |-> IF favs = Thrown \/ lists \in {Undef, Thrown}
                                             THEN Arr(<<>>) ELSE lists],
                      threw |-> favs = Thrown \/ lists = Thrown]
       /\ UNCHANGED <<varsPlayer, varsApi, varsParse, varsAgg, varsHome, varsSettings>>

\* the search history's initial state (Search.tsx lines 89-96)
ReadSearchHistory(stored) ==
    /\ applied = IdleApplied
    /\ applied' = [fn |-> "searchHistory", item |-> stored,
                   out |-> IF Truthy(stored) /\ JSONparse(stored.s) # Thrown
                           THEN JSONparse(stored.s) ELSE Arr(<<>>),
                   threw |-> FALSE]
    /\ UNCHANGED <<varsPlayer, varsApi, varsParse, varsAgg, varsHome, varsSettings>>

\* importData (LibraryContext.tsx lines 146-155) on a library lib; reading a
\* property of null is a TypeError, caught like the SyntaxError
importData(lib, jsonData) ==
    LET data == JSONparse(jsonData)
    IN IF data \in {Thrown, JsNull} THEN [ret |-> FALSE, lib |-> lib]
       ELSE [ret |-> TRUE,
             lib |-> [favorites |-> IF Truthy(Get(data, "favorites"))
                                    THEN Get(data, "favorites") ELSE lib.favorites,
                      playlists |-> IF Truthy(Get(data, "playlists"))
                                    THEN Get(data, "playlists") ELSE lib.playlists]]
Libraries ==
    [favorites : {Arr(<<>>), Arr(<<SongJson("2")>>)},
     playlists : {Arr(<<>>), Arr(<<Obj([id |-> Str("p1"), songs |-> Arr(<<SongJson("2")>>)])>>)}]
ImportData(lib, jsonData) ==
    /\ applied = IdleApplied
    /\ applied' = [fn |-> "importData", before |-> lib, item |-> Str(jsonData),
                   out |-> importData(lib, jsonData), threw |-> FALSE]
    /\ UNCHANGED <<varsPlayer, varsApi, varsParse, varsAgg, varsHome, varsSettings>>

NextStorage ==
    /\ applied = IdleApplied
    /\ \/ \E key \in DOMAIN PlayerKeys, item \in StoredItems : ReadPlayerKey(key, item)
       \/ \E storedFavs \in ListItems, storedPlaylists \in ListItems :
             LoadLibrary(storedFavs, storedPlaylists)
       \/ \E stored \in ListItems \cup {Str("[\"abba\"]")} : ReadSearchHistory(stored)
       \/ \E lib \in Libraries, jsonData \in Malformed \cup DOMAIN Parsable :
             ImportData(lib, jsonData)

(***************************************************************************)
(* The CORS proxy edge function: ALLOWED_HOSTS and onRequest               *)
(* (MiniPlayer.tsx 85-175)                                                  *)
(***************************************************************************)
ALLOWED_HOSTS ==
    <<"music.163.com", "interface.music.163.com", "interface3.music.163.com",
      "u.y.qq.com", "c.y.qq.com", "shc.y.qq.com", "y.gtimg.cn",
      "search.kuwo.cn", "www.kuwo.cn", "kuwo.cn", "artistpicserver.kuwo.cn",
      "kbangserver.kuwo.cn", "kwcdn.kuwo.cn", "mobi.kuwo.cn", "nmobi.kuwo.cn",
      "musicpay.kuwo.cn", "m.kuwo.cn">>

\* String.prototype.endsWith
EndsWith(str, suffix) ==
    Len(str) >= Len(suffix) /\ SubSeq(str, Len(str) - Len(suffix) + 1, Len(str)) = suffix

\* the first position of one of the characters in chars, Len(str) + 1 for none
FirstOf(str, chars) ==
    LET at == {i \in 1..Len(str) : SubSeq(str, i, i) \in chars}
    IN IF at = {} THEN Len(str) + 1 ELSE CHOOSE i \in at : \A j \in at : i <= j

\* the last position of the character c, 0 for none
LastIndexOf(str, c) ==
    LET at == {i \in 1..Len(str) : SubSeq(str, i, i) = c}
    IN IF at = {} THEN 0 ELSE CHOOSE i \in at : \A j \in at : i >= j

\* new URL(text) on http(s) URLs: the scheme, then the authority up to the
\* first "/", "?" or "#"; the userinfo before the last "@" and the port after
\* ":" are not part of the hostname, which is lower-cased.  A text without
\* the scheme, or with an empty host or a space in it, throws.
ParseUrl(text) ==
    LET scheme == IF StartsWith(text, "https://") THEN "https://"
                  ELSE IF StartsWith(text, "http://") THEN "http://" ELSE ""
        rest == SubSeq(text, Len(scheme) + 1, Len(text))
        authority == SubSeq(rest, 1, FirstOf(rest, {"/", "?", "#"}) - 1)
        hostport == SubSeq(authority, LastIndexOf(authority, "@") + 1, Len(authority))
        host == SubSeq(hostport, 1, FirstOf(hostport, {":"}) - 1)
    IN IF scheme = "" \/ host = "" \/ Includes(host, " ")
       THEN [ok |-> FALSE, hostname |-> "", origin |-> ""]
       ELSE [ok |-> TRUE, hostname |-> toLowerCase(host),
             origin |-> scheme \o toLowerCase(hostport)]

\* the allow-list test on the end of the name alone
HostAllowed_AnySuffix(hostname) ==
    \E i \in DOMAIN ALLOWED_HOSTS :
        hostname = ALLOWED_HOSTS[i] \/ EndsWith(hostname, ALLOWED_HOSTS[i])

\* ALLOWED_HOSTS.some(host => hostname === host || hostname.endsWith('.' + host))
HostAllowed(hostname) ==
    \E i \in DOMAIN ALLOWED_HOSTS :
        hostname = ALLOWED_HOSTS[i] \/ EndsWith(hostname, "." \o ALLOWED_HOSTS[i])

\* a response of the function; forwarded is the upstream request it made
NoForward == [url |-> "", method |-> "", referer |-> "", withBody |-> FALSE]
EdgeResponse(status, forwarded) == [status |-> status, forwarded |-> forwarded]

\* onRequest: request.method and the url parameter (JsNull when the query has
\* none); upstream is the status the target answers with, 0 a failed fetch
onRequest(method, targetUrl, upstream) ==
    IF method = "OPTIONS" THEN EdgeResponse(204, NoForward)
    ELSE IF ~Truthy(targetUrl) THEN EdgeResponse(400, NoForward)
    ELSE LET parsedTarget == ParseUrl(targetUrl.s)
             fetchOpts == [url |-> targetUrl.s, method |-> method,
                           referer |-> parsedTarget.origin,
                           withBody |-> method \notin {"GET", "HEAD"}]
         IN IF ~parsedTarget.ok THEN EdgeResponse(400, NoForward)
            ELSE IF ~HostAllowed(parsedTarget.hostname) THEN EdgeResponse(403, NoForward)
            ELSE EdgeResponse(IF upstream = 0 THEN 502 ELSE upstream, fetchOpts)

\* url parameters, each with what it is: none, not a URL, a URL of an
\* allow-listed host or of a subdomain of one, a URL of any other host
EdgeTargets ==
    {[url |-> JsNull, kind |-> "missing"],
     [url |-> Str(""), kind |-> "missing"],
     [url |-> Str("not a url"), kind |-> "invalid"],
     [url |-> Str("/api/search"), kind |-> "invalid"],
     [url |-> Str("music.163.com/api"), kind |-> "invalid"],
     [url |-> Str("https://"), kind |-> "invalid"],
     [url |-> Str("https://music.163.com/api/search?s=a"), kind |-> "allowed"],
     [url |-> Str("http://kuwo.cn"), kind |-> "allowed"],
     [url |-> Str("https://U.Y.QQ.COM/cgi-bin/musicu.fcg"), kind |-> "allowed"],
     [url |-> Str("https://cdn.y.gtimg.cn/music/a.jpg"), kind |-> "allowed"],
     [url |-> Str("https://www.kuwo.cn:8443/api"), kind |-> "allowed"],
     [url |-> Str("https://evil.example/music.163.com"), kind |-> "other"],
     [url |-> Str("https://evilkuwo.cn/api"), kind |-> "other"],
     [url |-> Str("https://kuwo.cn.evil.example/"), kind |-> "other"],
     [url |-> Str("https://music.163.com@evil.example/"), kind |-> "other"],
     [url |-> Str("https://163.com/"), kind |-> "other"]}
EdgeMethods == {"GET", "HEAD", "POST", "OPTIONS"}
UpstreamOutcomes == {0, 200, 404}

\* a request reaches the edge function
CallOnRequest(method, target, upstream) ==
    /\ applied = IdleApplied
    /\ applied' = [fn |-> "onRequest", method |-> method, target |-> target,
                   upstream |-> upstream,
                   out |-> onRequest(method, target.url, upstream)]
    /\ UNCHANGED <<varsPlayer, varsApi, varsParse, varsAgg, varsHome, varsSettings>>

NextEdge ==
    /\ applied = IdleApplied
    /\ \E method \in EdgeMethods, target \in EdgeTargets, upstream \in UpstreamOutcomes :
           CallOnRequest(method, target, upstream)

(***************************************************************************)
(* The Home page: fetchLists and handleTopListClick (Home.tsx 261-363)     *)
(***************************************************************************)
HomeSources == {"netease", "qq"}

\* what getTopLists(source) resolves to when the source has charts; a chart
\* carries the source it came from
ChartsOf(source) ==
    IF source = "netease"
    THEN <<[source |-> "netease", id |-> 1], [source |-> "netease", id |-> 2]>>
    ELSE <<[source |-> "qq", id |-> 3], [source |-> "qq", id |-> 4]>>

\* featuredSongs: the first n songs of chart `list` as asked from `source`
NoSongs == [source |-> "", list |-> 0, n |-> 0]
SongCounts == {0, 1, 25}
\* songs.slice(0, 20)
Sliced(source, list, count) ==
    [source |-> source, list |-> list, n |-> IF count > 20 THEN 20 ELSE count]

NoWrite == [kind |-> "none", source |-> "", stale |-> FALSE]

InitHome ==
    home = [activeSource |-> "netease", topLists |-> <<>>, featuredSongs |-> NoSongs,
            listsLoading |-> TRUE, songsLoading |-> TRUE, error |-> FALSE,
            fetchIdRef |-> 0, topListCache |-> {}, detailCache |-> {},
            inflight |-> {}, mounted |-> FALSE, actions |-> 0,
            \* history: the response written last, and whether its request
            \* was for a source other than the active one
            wrote |-> NoWrite]

\* the _detailCache entry of `${source}:${list}`
CachedDetail(h, source, list) ==
    {d \in h.detailCache : d.source = source /\ d.list = list}

\* _detailCache.set(key, ...): one entry per key
SetDetail(cache, songs) ==
    {d \in cache : ~(d.source = songs.source /\ d.list = songs.list)} \cup {songs}

\* a response of request r written to the page
Written(h, r) ==
    [h EXCEPT !.wrote = [kind |-> r.kind, source |-> r.source,
                         stale |-> r.source # h.activeSource]]

\* fetchLists(source) up to its first await; listFresh and detailFresh say
\* whether a cache entry, if there is one, is younger than CACHE_TTL
fetchLists(h, source, listFresh, detailFresh) ==
    LET thisId == h.fetchIdRef + 1
        h0 == [h EXCEPT !.fetchIdRef = thisId, !.error = FALSE]
        cached == source \in h.topListCache /\ listFresh
        h1 == IF cached
              THEN [h0 EXCEPT !.topLists = ChartsOf(source), !.listsLoading = FALSE]
              ELSE [h0 EXCEPT !.listsLoading = TRUE]
        cachedDetail == IF cached /\ detailFresh
                        THEN CachedDetail(h, source, ChartsOf(source)[1].id) ELSE {}
    IN IF cachedDetail # {}
       THEN [h1 EXCEPT !.featuredSongs = CHOOSE d \in cachedDetail : TRUE,
                       !.songsLoading = FALSE]
       ELSE [h1 EXCEPT !.songsLoading = TRUE,
                       !.inflight = @ \cup {[kind |-> "lists", source |-> source,
                                             list |-> 0, thisId |-> thisId]}]

\* fetchLists' finally block
fetchListsFinally(h, r) ==
    IF r.thisId = h.fetchIdRef
    THEN [h EXCEPT !.listsLoading = FALSE, !.songsLoading = FALSE] ELSE h

\* the race check: thisId !== fetchIdRef.current
IsStaleFetch(h, r) == r.thisId # h.fetchIdRef

\* fetchLists after `await getTopLists(source)`; result is "lists", "empty"
\* (null or []) or "throw"
onTopLists(h, r, result) ==
    LET h0 == [h EXCEPT !.inflight = @ \ {r}]
        cleared == [h0 EXCEPT !.topLists = <<>>, !.featuredSongs = NoSongs, !.error = TRUE]
    IN IF result = "throw"
       THEN fetchListsFinally(IF ~IsStaleFetch(h0, r) THEN cleared ELSE h0, r)
       ELSE IF IsStaleFetch(h0, r) THEN h0
       ELSE IF result = "lists"
            THEN [Written(h0, r) EXCEPT
                     !.topLists = ChartsOf(r.source), !.listsLoading = FALSE,
                     !.topListCache = @ \cup {r.source},
                     !.inflight = @ \cup {[kind |-> "detail", source |-> r.source,
                                           list |-> ChartsOf(r.source)[1].id,
                                           thisId |-> r.thisId]}]
       ELSE fetchListsFinally(cleared, r)

\* fetchLists after `await getTopListDetail(lists[0].id, source)`; count is
\* the number of songs that came, -1 a rejection
onFirstDetail(h, r, count) ==
    LET h0 == [h EXCEPT !.inflight = @ \ {r}]
        songs == Sliced(r.source, r.list, count)
    IN IF count < 0
       THEN fetchListsFinally(IF ~IsStaleFetch(h0, r)
                              THEN [h0 EXCEPT !.featuredSongs = NoSongs] ELSE h0, r)
       ELSE IF IsStaleFetch(h0, r) THEN h0
       ELSE fetchListsFinally([Written(h0, r) EXCEPT
                                  !.featuredSongs = songs,
                                  !.detailCache = SetDetail(@, songs)], r)

\* handleTopListClick(list) up to its await, with the activeSource of the
\* render the handler belongs to
handleTopListClick(h, list, detailFresh) ==
    LET cached == IF detailFresh THEN CachedDetail(h, h.activeSource, list.id) ELSE {}
    IN IF cached # {}
       THEN [h EXCEPT !.featuredSongs = CHOOSE d \in cached : TRUE]
       ELSE [h EXCEPT !.songsLoading = TRUE,
                      !.inflight = @ \cup {[kind |-> "click", source |-> h.activeSource,
                                            list |-> list.id, thisId |-> 0]}]

\* handleTopListClick after `await getTopListDetail(list.id, activeSource)`
onClickedDetail(h, r, count) ==
    LET h0 == [h EXCEPT !.inflight = @ \ {r}]
        songs == Sliced(r.source, r.list, count)
    IN IF count < 0 THEN [h0 EXCEPT !.songsLoading = FALSE]
       ELSE [Written(h0, r) EXCEPT !.featuredSongs = songs,
                                   !.detailCache = SetDetail(@, songs),
                                   !.songsLoading = FALSE]

HomeStep(h) ==
    /\ home' = h
    /\ UNCHANGED <<varsPlayer, varsApi, varsParse, varsAgg, varsPure, varsSettings>>

\* the effect of the first render: fetchLists(activeSource)
HomeMount ==
    /\ ~home.mounted
    /\ HomeStep(fetchLists([home EXCEPT !.mounted = TRUE], home.activeSource, FALSE, FALSE))

\* the user picks another source: setActiveSource(source), and the effect of
\* the render that follows calls fetchLists(source)
SwitchSource(source, listFresh, detailFresh) ==
    /\ home.mounted /\ home.actions < MaxHomeActions
    /\ source # home.activeSource
    /\ HomeStep(fetchLists([home EXCEPT !.activeSource = source, !.actions = @ + 1],
                           source, listFresh, detailFresh))

\* the user clicks one of the charts shown
ClickTopList(k, detailFresh) ==
    /\ home.mounted /\ home.actions < MaxHomeActions
    /\ k \in DOMAIN home.topLists
    /\ HomeStep(handleTopListClick([home EXCEPT !.actions = @ + 1],
                                   home.topLists[k], detailFresh))

\* getTopLists settles
TopListsReturn(r, result) ==
    /\ r \in home.inflight /\ r.kind = "lists"
    /\ HomeStep(onTopLists(home, r, result))

\* getTopListDetail settles for fetchLists
FirstDetailReturn(r, count) ==
    /\ r \in home.inflight /\ r.kind = "detail"
    /\ HomeStep(onFirstDetail(home, r, count))

\* getTopListDetail settles for handleTopListClick
ClickedDetailReturn(r, count) ==
    /\ r \in home.inflight /\ r.kind = "click"
    /\ HomeStep(onClickedDetail(home, r, count))

NextHome ==
    \/ HomeMount
    \/ \E source \in HomeSources, listFresh, detailFresh \in BOOLEAN :
           SwitchSource(source, listFresh, detailFresh)
    \/ \E k \in 1..2, detailFresh \in BOOLEAN : ClickTopList(k, detailFresh)
    \/ \E r \in home.inflight, result \in {"lists", "empty", "throw"} :
           TopListsReturn(r, result)
    \/ \E r \in home.inflight, count \in SongCounts \cup {-1} : FirstDetailReturn(r, count)
    \/ \E r \in home.inflight, count \in SongCounts \cup {-1} : ClickedDetailReturn(r, count)

(***************************************************************************)
(* The settings: LibraryProvider's setters and the form of the Library     *)
(* page (LibraryContext.tsx 28-60, pages/Library.tsx 30-45)                *)
(***************************************************************************)
DEFAULT_PROXY == "https://corsproxy.io/?"
DEFAULT_API_BASE == "https://tunehub.sayqz.com/api"

\* url.endsWith('/') ? url.slice(0, -1) : url
cleanUrl(url) ==
    IF Len(url) > 0 /\ SubSeq(url, Len(url), Len(url)) = "/"
    THEN SubSeq(url, 1, Len(url) - 1) ELSE url

\* LibraryProvider's initial state read from localStorage, and the form's
\* fields initialised from it; storedKey and storedBase are the localStorage
\* items ("" = not set), the proxy item is storedProxy
InitSettings ==
    settings = [apiKey |-> "", storedKey |-> "",
                corsProxy |-> IF storedProxy # "" THEN storedProxy ELSE DEFAULT_PROXY,
                apiBase |-> DEFAULT_API_BASE, storedBase |-> "",
                tempApiKey |-> "",
                tempProxy |-> IF storedProxy # "" THEN storedProxy ELSE DEFAULT_PROXY,
                tempApiBase |-> DEFAULT_API_BASE,
                edits |-> 0,
                \* history: the stored proxy the session began with, whether
                \* the user typed a proxy, how often the form was saved
                storedAtStart |-> storedProxy, typedProxy |-> FALSE, saves |-> 0]

\* setCorsProxy(url): the state and the localStorage item
setCorsProxy(g, stored, url) ==
    [settings |-> [g EXCEPT !.corsProxy = url], storedProxy |-> url]

\* handleSaveSettings: setApiKey(tempApiKey); setCorsProxy(tempProxy);
\* setApiBase(tempApiBase)
handleSaveSettings(g, stored) ==
    LET g1 == [g EXCEPT !.apiKey = g.tempApiKey, !.storedKey = g.tempApiKey]
        r == setCorsProxy(g1, stored, g.tempProxy)
    IN [r EXCEPT !.settings.apiBase = cleanUrl(g.tempApiBase),
                 !.settings.storedBase = cleanUrl(g.tempApiBase)]

SettingsStep(g, stored) ==
    /\ settings' = g
    /\ storedProxy' = stored
    /\ UNCHANGED <<op, reqLog, attempts, kuwoChartPic, lyricsCache, lyricsDone, varsPlayer,
                   varsParse, varsAgg, varsPure, varsHome>>

\* the user edits a field of the form
TypeApiKey(key) ==
    /\ settings.edits < MaxEdits /\ key # settings.tempApiKey
    /\ SettingsStep([settings EXCEPT !.tempApiKey = key, !.edits = @ + 1], storedProxy)
TypeProxy(url) ==
    /\ settings.edits < MaxEdits /\ url # settings.tempProxy
    /\ SettingsStep([settings EXCEPT !.tempProxy = url, !.typedProxy = TRUE,
                                     !.edits = @ + 1], storedProxy)
TypeApiBase(url) ==
    /\ settings.edits < MaxEdits /\ url # settings.tempApiBase
    /\ SettingsStep([settings EXCEPT !.tempApiBase = url, !.edits = @ + 1], storedProxy)

\* the user presses the save button, while no call is under way
SaveSettings ==
    /\ op.pc \in {"idle", "done"}
    /\ settings.edits < MaxEdits
    /\ LET r == handleSaveSettings(settings, storedProxy)
       IN SettingsStep([r.settings EXCEPT !.saves = @ + 1, !.edits = @ + 1], r.storedProxy)

\* a session with the settings form: a list operation and the lyric fallback
\* that runs a proxy loop of its own
NextSettings ==
    \/ Call("search", "netease", "1")
    \/ Call("lyrics", "qq", "1")
    \/ \E resp \in DescResponses : DescriptorResponse(resp)
    \/ \E resp \in Responses : ProxyResponse(resp)
    \/ \E key \in {"", "k"} : TypeApiKey(key)
    \/ \E url \in {"", DEFAULT_PROXY, UserProxy} : TypeProxy(url)
    \/ \E url \in {DEFAULT_API_BASE, "https://my.api/"} : TypeApiBase(url)
    \/ SaveSettings

(***************************************************************************)
(* Specifications                                                          *)
(***************************************************************************)
\* the player starts with the persisted song (or none) and quality, the
\* services with the persisted proxy (or none)
InitPlayerSide ==
    InitPlayer({NoSong, SongA}, Qualities) /\ InitApi({""}) /\ InitParse /\ InitAgg /\ InitPure /\ InitHome /\ InitSettings
InitApiSide ==
    InitPlayer({NoSong}, {"320k"}) /\ InitApi(StoredChoices) /\ InitParse /\ InitAgg /\ InitPure /\ InitHome /\ InitSettings
InitPlayingSide ==
    InitPlaying(Qualities) /\ InitApi({""}) /\ InitParse /\ InitAgg /\ InitPure /\ InitHome /\ InitSettings
InitQueueSide ==
    InitQueue /\ InitApi({""}) /\ InitParse /\ InitAgg /\ InitPure /\ InitHome /\ InitSettings
InitParseSide ==
    InitPlayer({NoSong}, {"320k"}) /\ InitApi({""}) /\ InitParse /\ InitAgg /\ InitPure /\ InitHome /\ InitSettings

NextDistinctIds == NextPlayer(Catalog)
NextSameId == NextPlayer(SameIdCatalog)

SpecPlayer == InitPlayerSide /\ [][NextDistinctIds]_vars
SpecSameId == InitPlayerSide /\ [][NextSameId]_vars
SpecQuality == InitPlayingSide /\ [][NextDistinctIds]_vars
\* the player with the end of a track, the next button and the mode button
NextQueue ==
    \/ NextDistinctIds
    \/ \E rand \in ShuffleIndices(queue, findIndex(queue, currentSongRef)) : AudioEnded(rand)
    \/ \E rand \in ShuffleIndices(queue, findIndex(queue, currentSongRef)) : UserPlayNext(rand)
    \/ UserTogglePlayMode
SpecQueue == InitQueueSide /\ [][NextQueue]_vars
SpecHome == InitParseSide /\ [][NextHome]_vars
SpecSettings == InitApiSide /\ [][NextSettings]_vars
SpecEdge == InitParseSide /\ [][NextEdge]_vars
SpecPlayerLive == InitPlayerSide /\ [][NextDistinctIds]_vars /\ FairPlayer
SpecRouting == InitPlayerSide /\ [][NextRouting]_vars
SpecRoutingInside == InitPlayerSide /\ [][NextRoutingInside]_vars
SpecLibrary == InitPlayerSide /\ [][NextLibrary]_vars
SpecApi == InitApiSide /\ [][NextApi]_vars
SpecLyrics == InitApiSide /\ [][NextLyrics]_vars
SpecCovers == InitApiSide /\ [][NextCovers]_vars
NextParseFull == NextParse(FullChoices)
NextPlaceholder == NextParse(PlaceholderChoices)
SpecParse == InitParseSide /\ [][NextParseFull]_vars
SpecPlaceholder == InitParseSide /\ [][NextPlaceholder]_vars
SpecExtract == InitParseSide /\ [][NextExtract]_vars
SpecNormalize == InitParseSide /\ [][NextNormalize]_vars
SpecStorage == InitParseSide /\ [][NextStorage]_vars
SpecTransform == InitParseSide /\ [][NextTransform]_vars
SpecRequest == InitParseSide /\ [][NextRequest]_vars
SpecAggregate == InitParseSide /\ [][NextAggregate]_vars

(***************************************************************************)
(* Properties of services/api.ts                                           *)
(***************************************************************************)
\* the requests a function has sent in the current call
RequestsBy(by) == SelectSeq(reqLog, LAMBDA r : r.by = by)

ExecRequests == RequestsBy("executeMethod")

\* C5: executeMethod never resolves to a payload that is [-1], ["-1"] or carries
\* code -447; after an attempt found such a payload the next proxy of the list
\* is contacted; and when no attempt was accepted executeMethod resolves to null.
C5_GarbageSkipped ==
    /\ op.exec # "garbage"
    /\ \A i \in DOMAIN attempts :
          (attempts[i].outcome = "garbage" /\ i < Len(ProxyList(ExecRequests[1].stored)))
             => (Len(ExecRequests) > i
                 /\ ExecRequests[i + 1].via = ProxyList(ExecRequests[1].stored)[i + 1])
    /\ (op.exec # "pending" /\ \A i \in DOMAIN attempts : attempts[i].outcome # "ok")
          => op.exec = "null"

\* a garbage answer of the first proxy was skipped and the second proxy's data returned
C5_GarbageThenData ==
    /\ Len(attempts) = 2
    /\ attempts[1].outcome = "garbage" /\ attempts[2].outcome = "ok"
    /\ op.exec = "data"

\* C6: neither executeMethod nor proxyFetchJson lets an exception reach its
\* caller, and neither resolves to anything but null when its proxy attempts
\* ended in network errors, unparsable bodies or garbage payloads.
C6_NullWhenAllAttemptsFail ==
    /\ ~op.threw
    /\ op.exec # "garbage"
    /\ (op.exec # "pending" /\ \A i \in DOMAIN attempts : attempts[i].outcome # "ok")
          => op.exec = "null"
    /\ op.pfj # "garbage"

\* the (operation, provider) pairs the code has a fallback resolver for
ProvidedFallbacks ==
    [search |-> [netease |-> "neteaseSearchFallback", qq |-> "qqSearchFallback",
                 kuwo |-> "kuwoSearchFallback"],
     toplists |-> [netease |-> "neteaseToplistsFallback", qq |-> "none",
                   kuwo |-> "kuwoToplistsFallback"],
     toplist |-> [netease |-> "neteaseToplistDetailFallback", qq |-> "none",
                  kuwo |-> "kuwoToplistDetailFallback"]]

ListCall == op.kind \in Kinds

C8_OnlyTheUserProxy ==
    \A i \in DOMAIN reqLog :
        reqLog[i].by # "tuneHubFetch" =>
            /\ reqLog[i].stored # "" => reqLog[i].via = reqLog[i].stored
            /\ op.pc \notin {"idle", "done"} => reqLog[i].stored = storedProxy

\* the user's proxy failed in executeMethod and the fallback went to it again
C8_UserProxyFailedAndReused ==
    /\ storedProxy = UserProxy
    /\ Len(attempts) = 1 /\ attempts[1].proxy = UserProxy /\ attempts[1].outcome = "neterr"
    /\ op.fbInvoked /\ Len(reqLog) >= 3
    /\ reqLog[Len(reqLog)].via = UserProxy

FallbackContacted ==
    \E i \in DOMAIN reqLog :
        reqLog[i].by \in {"proxyFetchJson", "qqSearchFallback", "kuwoSearchFallback"}

SameRecords(a, b) ==
    /\ Len(a) = Len(b)
    /\ \A k \in DOMAIN a : a[k].id = b[k].id /\ a[k].source = b[k].source

\* C9: in the three list calls a fallback endpoint is contacted only after
\* executeMethod has returned and the normalized primary list is empty; when
\* the primary list has a record no fallback endpoint is contacted and the
\* call returns the primary records.
C9_FallbackOnlyWhenEmpty ==
    ListCall =>
        /\ FallbackContacted => (op.exec # "pending" /\ op.primary = <<>>)
        /\ (op.exec # "pending" /\ op.primary # <<>>) =>
              /\ ~op.fbInvoked
              /\ op.pc = "done" => SameRecords(op.result, op.primary)

\* a call that returned its primary records
C9_PrimaryReturned ==
    /\ ListCall /\ op.pc = "done" /\ op.primary # <<>>
    /\ op.result # <<>> /\ ~FallbackContacted

EmptyPrimaryDone == ListCall /\ op.pc = "done" /\ op.primary = <<>>

\* C10 as stated: for every provider and every list operation an empty primary
\* result leads to the provider's fallback resolver and to its result.
C10_EveryPairFallsBack ==
    EmptyPrimaryDone => (op.fbInvoked /\ op.fbDone /\ op.result = op.fbResult)

\* C10: an empty primary result leads to the fallback resolver of the provider
\* and operation and to its result, for every pair except the chart list and
\* the chart detail of qq, which return the empty primary result.
C10_FallsBackExceptQqCharts ==
    EmptyPrimaryDone =>
        IF op.platform = "qq" /\ op.kind \in {"toplists", "toplist"}
        THEN ~op.fbInvoked /\ op.result = <<>>
        ELSE /\ op.fbInvoked /\ op.fbDone /\ op.result = op.fbResult
             /\ op.fb = ProvidedFallbacks[op.kind][op.platform]

\* the Kuwo chart list came from its fallback
C10_KuwoChartsFromFallback ==
    /\ EmptyPrimaryDone /\ op.kind = "toplists" /\ op.platform = "kuwo"
    /\ op.fbDone /\ op.result # <<>>

CoverRequests == RequestsBy("batchFetchKuwoCovers")

\* C11: the fallback resolvers iterate over the proxy list as executeMethod
\* does: proxyFetchJson never stops at a payload that is [-1], ["-1"] or
\* carries code -447, and a cover request of batchFetchKuwoCovers that brought
\* no cover through the first proxy of the default list is sent again through
\* the second.
C11_FallbacksIterateLikeExecuteMethod ==
    /\ op.pfj # "garbage"
    /\ \A i \in DOMAIN reqLog :
          reqLog[i].by # "tuneHubFetch" => reqLog[i].via \in
              {ProxyList(reqLog[i].stored)[k] : k \in DOMAIN ProxyList(reqLog[i].stored)}
    /\ (/\ op.pc = "done" /\ op.platform = "kuwo" /\ CoverRequests # <<>>
        /\ CoverRequests[1].stored = ""
        /\ \E k \in DOMAIN op.result : op.result[k].pic = "")
          => \E i \in DOMAIN CoverRequests : CoverRequests[i].via = DEFAULT_PROXIES[2]

LyricCall == op.kind = "lyrics"

TextOf(result) == IF result = <<>> THEN "" ELSE LrcString

C12_PlaceholderNeverFetched ==
    \A c \in Slots : IsTempId(calls[c].id) => calls[c].sent = {}

FullCalls == {c \in Slots : calls[c].pc # "free" /\ calls[c].fn = "parseSongFull"}

TripleOf(call) == <<call.platform, call.id, call.quality>>

\* history: at the call's start an entry written for its triple was younger
\* than five minutes
HadFreshEntry(call) == call.age >= 0 /\ call.age < 5 * 60 * 1000

\* C13: a parseSongFull whose triple has an entry younger than five minutes
\* sends no /v1/parse request and returns the url that entry's data gives;
\* without such an entry (none written for the triple, or one five minutes old
\* or older) it is not served from the cache and sends a /v1/parse request.
C13_ParseCacheServesFreshTriple ==
    \A c \in FullCalls :
        /\ calls[c].served <=> HadFreshEntry(calls[c])
        /\ HadFreshEntry(calls[c]) =>
              /\ "/v1/parse" \notin calls[c].sent
              /\ calls[c].pc = "done" =>
                    (calls[c].result.kind = "value"
                     /\ calls[c].result.url = fixUrl(calls[c].entryUrl))
        /\ ~HadFreshEntry(calls[c]) => "/v1/parse" \in calls[c].sent

\* an entry one millisecond short of five minutes old was served while an
\* entry for another quality or provider was in the cache
C13_ServedJustBeforeExpiry ==
    \E c \in FullCalls :
        /\ calls[c].pc = "done" /\ calls[c].served
        /\ calls[c].age = PARSE_CACHE_TTL - 1
        /\ calls[c].result.url # ""
        /\ \E k \in DOMAIN parseCache : parseCache[k].for # TripleOf(calls[c])

\* two parseSongFull calls for one triple that were under way at the same
\* time, have both written the cache, c2 after c1 and as the last one, and
\* have both returned
BothWrote(c1, c2) ==
    /\ c1 \in FullCalls /\ c2 \in FullCalls /\ c1 # c2
    /\ TripleOf(calls[c1]) = TripleOf(calls[c2])
    /\ calls[c1].concurrent /\ calls[c2].concurrent
    /\ calls[c1].pc = "done" /\ calls[c2].pc = "done"
    /\ calls[c1].wrote > 0 /\ calls[c2].wrote > calls[c1].wrote

\* C14: after two concurrent parseSongFull calls for one triple have both
\* written, both have returned a value and the cache holds one entry for the
\* triple, the data of the later write.
C14_LaterWriteWins ==
    \A c1, c2 \in Slots :
        BothWrote(c1, c2) =>
            LET key == CacheKey(calls[c2].platform, calls[c2].id, calls[c2].quality)
            IN /\ calls[c1].result.kind = "value" /\ calls[c2].result.kind = "value"
               /\ MapHas(parseCache, key)
               /\ parseCache[key].data = <<calls[c2].item>>
               /\ Cardinality(EntriesFor(parseCache, TripleOf(calls[c2]))) = 1

\* the two calls obtained different data and the second one's is in the cache
C14_TwoWritesOneEntry ==
    \E c1, c2 \in Slots :
        /\ BothWrote(c1, c2)
        /\ calls[c1].item # calls[c2].item
        /\ parseCache[CacheKey(calls[c2].platform, calls[c2].id, calls[c2].quality)].data
              = <<calls[c2].item>>

(***************************************************************************)
(* Properties of searchAggregate                                           *)
(***************************************************************************)
RECURSIVE TotalLen(_)
TotalLen(lists) == IF lists = <<>> THEN 0 ELSE Len(Head(lists)) + TotalLen(Tail(lists))

RankOf(platform) == CHOOSE j \in DOMAIN AggPlatforms : AggPlatforms[j] = platform

\* merged is the round-robin interleaving of the lists: it has every element
\* of every list once, ordered by position first and by provider second
IsInterleaving(merged, lists) ==
    /\ Len(merged) = TotalLen(lists)
    /\ \A p \in DOMAIN merged :
          LET j == RankOf(merged[p].source)
          IN merged[p].n \in DOMAIN lists[j] /\ lists[j][merged[p].n] = merged[p]
    /\ \A p, q \in DOMAIN merged :
          p < q => \/ merged[p].n < merged[q].n
                   \/ (merged[p].n = merged[q].n
                       /\ RankOf(merged[p].source) < RankOf(merged[q].source))

\* the list each search contributes: its songs, none if it was rejected
Contributed == [j \in DOMAIN AggPlatforms |->
                   IF agg.searches[j].state = "resolved" THEN agg.searches[j].songs ELSE <<>>]

AllResolved == \A j \in DOMAIN AggPlatforms : agg.searches[j].state = "resolved"

\* C16: for result lists R0, R1, R2 of any lengths searchAggregate returns
\* R0[0], R1[0], R2[0], R0[1], ... with exhausted lists contributing nothing:
\* |R0|+|R1|+|R2| elements, each provider's order kept.
C16_RoundRobinInterleaving ==
    (agg.pc = "done" /\ AllResolved) => IsInterleaving(agg.merged, Contributed)

\* [a1,a2], [b1], [c1,c2,c3] gives [a1,b1,c1,a2,c2,c3]
C16_ExampleOfTheSpec ==
    /\ agg.pc = "done"
    /\ Contributed = <<Hits("netease", 2), Hits("qq", 1), Hits("kuwo", 3)>>
    /\ agg.merged = <<Hit("netease", 1), Hit("qq", 1), Hit("kuwo", 1),
                      Hit("netease", 2), Hit("kuwo", 2), Hit("kuwo", 3)>>

\* C17: searchAggregate starts the three searches together, merges only once
\* all three have settled, and with a rejected search still resolves, to the
\* interleaving that has an empty list for that provider, whatever the order
\* the searches settle in.
C17_OneFailureDoesNotFailAll ==
    /\ agg.pc = "waiting" =>
          /\ agg.launched = {AggPlatforms[j] : j \in DOMAIN AggPlatforms}
          /\ agg.merged = <<>> /\ agg.outcome = "pending"
          /\ \E j \in DOMAIN AggPlatforms : agg.searches[j].state = "pending"
    /\ agg.pc = "done" =>
          /\ \A j \in DOMAIN AggPlatforms : agg.searches[j].state # "pending"
          /\ agg.outcome = "resolved"
          /\ IsInterleaving(agg.merged, Contributed)

\* the last provider settled first, a search settling after it was rejected,
\* and the other two lists were merged
C17_RejectedAfterOthersSettled ==
    /\ agg.pc = "done" /\ agg.outcome = "resolved"
    /\ agg.order = <<"kuwo", "netease", "qq">>
    /\ agg.searches[2].state = "rejected"
    /\ agg.merged = <<Hit("netease", 1), Hit("kuwo", 1), Hit("netease", 2)>>

(***************************************************************************)
(* Properties of the Kuwo cover backfill                                   *)
(***************************************************************************)
\* a call of batchFetchKuwoCovers has started / has returned
BackfillCalled == op.kind = "covers" /\ op.pc \in {"covers", "done"}
BackfillReturned == op.kind = "covers" /\ op.pc = "done"

\* the songs of the list handed over that have no cover / that also have an id
Coverless == {k \in DOMAIN op.asked : op.asked[k].pic = ""}
Fetchable == {k \in Coverless : op.asked[k].id # ""}

\* what the call returns, given what each request was answered with: the list
\* in its length and order, a song changed only in its cover and only when
\* its own request was answered with a URL, no request left unsettled, no throw
BackfillIsolated ==
    /\ ~op.threw
    /\ op.covers = {}
    /\ Len(op.result) = Len(op.asked)
    /\ \A k \in DOMAIN op.asked :
          IF op.got[k] = "url"
          THEN /\ k \in Coverless
               /\ op.result[k].pic # ""
               /\ op.result[k] = [op.asked[k] EXCEPT !.pic = op.result[k].pic]
          ELSE op.result[k] = op.asked[k]

\* C18, as the spec words it: batchFetchKuwoCovers issues one request per song
\* that lacks a cover, awaits them all, and returns a list of the same length
\* and order in which a song differs from the one handed over only by the
\* cover its own request brought; it never rejects.
C18_OneRequestPerCoverlessSong ==
    /\ BackfillCalled => Len(CoverRequests) = Cardinality(Coverless)
    /\ BackfillReturned => BackfillIsolated

\* C18, as the code has it: the requests are one per song that lacks a cover
\* and has an id (a song without an id is handed back as it came, with no
\* request); the rest as above.
C18_OneRequestPerFetchableSong ==
    /\ BackfillCalled => Len(CoverRequests) = Cardinality(Fetchable)
    /\ BackfillReturned => BackfillIsolated

\* three songs, the first with a cover; the request of the second failed,
\* the request of the third brought a cover
C18_OneFailedOneFilled ==
    /\ BackfillReturned
    /\ Len(op.asked) = 3
    /\ op.asked[1].pic # "" /\ op.got[1] = "none"
    /\ op.got[2] = "neterr" /\ op.result[2].pic = ""
    /\ op.got[3] = "url" /\ op.result[3].pic # ""

\* a call that hands a normalized Kuwo song list to its caller has returned
KuwoSongListReturned ==
    /\ op.pc = "done" /\ op.platform = "kuwo"
    /\ op.kind \in {"search", "toplist", "playlist"}

\* C19: whenever searchSongs, getTopListDetail or getPlaylistDetail returns a
\* Kuwo song list in which a track has no cover, from the primary or from the
\* fallback path, batchFetchKuwoCovers was run over that list before: it was
\* handed the list, and every track still without a cover had its request.
C19_CoverlessKuwoListWasBackfilled ==
    (KuwoSongListReturned /\ \E k \in DOMAIN op.result : op.result[k].pic = "")
        => /\ Len(op.asked) = Len(op.result)
           /\ \A k \in DOMAIN op.result :
                  op.result[k].pic = "" => op.got[k] \in {"neterr", "other"}

(***************************************************************************)
(* Properties of the output routing                                        *)
(***************************************************************************)
\* the element's src is a URL of the Kuwo CDN
KuwoSrc == HasSrc(audio) /\ ~needsCors(audio.src)

\* C20: in every reachable state, an element whose src is a Kuwo CDN URL has
\* no crossOrigin attribute and no AudioContext / MediaElementSource bound to
\* it, whatever playSong, setAudioQuality, the degrade retries and
\* initAudioContext have done before.
C20_KuwoSrcNeverInstrumented == KuwoSrc => (~audio.crossOrigin /\ ~audioCtx)

\* a URL arrived for the current track while the element's posture (an
\* AudioContext bound or crossOrigin set, or neither) was the other one
PostureSwitched == ev.kind = "parseReturn" /\ ev.switched

\* C21: createMediaElementSource is called at most once on an element; when a
\* track needs the other posture, the element that gets the new src is a fresh
\* one that carries all six listeners and never had a src, the AudioContext
\* of the old one is closed, and no element but the current one carries the
\* player's listeners.
C21_OneShotBinding ==
    /\ audio.binds <= 1
    /\ audio.handlers = Handlers /\ ~audio.stale /\ ~audio.leaked
    /\ PostureSwitched => (~audio.reused /\ audio.src # NoUrl)

\* a Kuwo track after a track that played through a bound AudioContext: the
\* element was rebuilt, and the binding went with the old element
C21_SwitchedToClean ==
    /\ PostureSwitched /\ KuwoSrc /\ userActions = 2
    /\ ~audioCtx /\ audio.binds = 0 /\ ~audio.reused

(***************************************************************************)
(* Progress of a playback attempt                                          *)
(***************************************************************************)
\* C22: if every parse call returns and a loading element reports
\* loadedmetadata or an error, a playback attempt that has set isLoading
\* reaches PLAYING or FAILED, both of which have isLoading false: isLoading
\* never stays true forever.
C22_LoadingEnds == isLoading ~> ~isLoading

(***************************************************************************)
(* Terminal failure                                                        *)
(***************************************************************************)
\* the failure that just arrived has no retry left: the quality of the failed
\* resolution or stream is the lowest, or the one retry is spent
NoRetryLeft == ev.q = LowestQuality \/ ev.retry # 0

\* the playback engine failed: the element fired error, or play() was
\* rejected for a reason other than a newer load()
EngineFailed ==
    \/ ev.kind = "audioError"
    \/ ev.kind = "playRejected" /\ ev.name # "AbortError"

Stopped == ~isLoading /\ ~isPlaying

\* C23: an attempt that ends in terminal failure (no URL, an error event or a
\* rejected play() promise, with the lowest quality reached or the retry
\* spent) leaves the player with isLoading and isPlaying false.
C23_TerminalFailureStops ==
    ((NoUrlArrived \/ EngineFailed) /\ NoRetryLeft) => Stopped

(***************************************************************************)
(* Properties of extractList                                               *)
(***************************************************************************)
RECURSIVE FirstNonEmpty(_)
FirstNonEmpty(lists) ==
    IF lists = <<>> THEN <<>>
    ELSE IF Head(lists) # <<>> THEN Head(lists) ELSE FirstNonEmpty(Tail(lists))

\* C24: for a grouped-chart payload (the groups under group or groupList, at
\* the top level or under data; each group's songs under list, toplist or
\* topList) extractList returns the songs of the groups in group order and,
\* within a group, in the group's order.
C24_GroupsFlattenedInOrder ==
    (applied.fn = "extractList" /\ applied.sample.grouped)
        => applied.out = Arr(ConcatSongs(applied.sample.shapes))

\* the example of the spec: {group: [{list: [1, 2]}, {list: [3]}]} gives [1, 2, 3]
C24_ExampleFlattened ==
    /\ applied.fn = "extractList"
    /\ applied.sample.data =
          Obj([group |-> Arr(<<Obj([list |-> Arr(<<TrackOf(1), TrackOf(2)>>)]),
                               Obj([list |-> Arr(<<TrackOf(3)>>)])>>)])
    /\ applied.out = Arr(<<TrackOf(1), TrackOf(2), TrackOf(3)>>)

\* C25: extractList returns what the first rule that yields a non-empty list
\* yields: a matching rule that yields an empty list does not end the search.
C25_FirstNonEmptyRuleWins ==
    applied.fn = "extractList" => applied.out = Arr(FirstNonEmpty(applied.sample.yields))

\* C26: a QQ record that holds both a numeric id and a songmid is identified
\* by the songmid string, by findId and in the Song normalizeSongs makes of it
QqWithBoth(rec) == rec.both /\ applied.platform = "qq"
C26_QqIdentityIsSongmid ==
    /\ applied.fn = "findId" /\ QqWithBoth(applied.sample)
        => applied.out = Str("003aBc")
    /\ applied.fn = "normalizeSongs"
        => \A k \in DOMAIN applied.sample.recs :
              "both" \in DOMAIN applied.sample.recs[k] /\ QqWithBoth(applied.sample.recs[k])
                 => applied.out[k].id = Str("003aBc")
\* a wrapped QQ record with songmid, mid, topId, file.media_mid and a numeric
\* id was normalized
C26_WrappedQqRecordNormalized ==
    /\ applied.fn = "normalizeSongs" /\ applied.platform = "qq"
    /\ Len(applied.sample.recs) = 1
    /\ applied.sample.recs[1].both /\ applied.sample.recs[1].wrapped
    /\ Get(Get(applied.sample.recs[1].item, "data"), "topId") = Num(4)
    /\ applied.out[1].id = Str("003aBc") /\ applied.out[1].isValidId

\* C27: every Song of normalizeSongs has string name, artist, album and pic,
\* with 'Unknown Song', 'Unknown Artist', '' and '' where the record gives
\* none; falsy items produce no Song; a record gets the id 'temp_<token>' and
\* isValidId = false exactly when it has no discoverable identity
IsRecord(r) == "both" \in DOMAIN r
C27_SongsAreWellFormed ==
    applied.fn = "normalizeSongs" =>
        /\ Len(applied.out) = Len(applied.sample.recs)
        /\ \A k \in DOMAIN applied.out :
              LET song == applied.out[k]
                  r == applied.sample.recs[k]
                  id == IF IsRecord(r) THEN r.ids[applied.platform] ELSE ""
              IN /\ \A fld \in {"name", "artist", "album", "pic"} :
                        song[fld].t = "string" /\ song[fld].s # "undefined"
                 /\ ~(IsRecord(r) /\ r.name) => song.name = Str("Unknown Song")
                 /\ ~(IsRecord(r) /\ r.artist) => song.artist = Str("Unknown Artist")
                 /\ ~(IsRecord(r) /\ r.album) => song.album = Str("")
                 /\ ~(IsRecord(r) /\ r.pic) => song.pic = Str("")
                 /\ song.isValidId = (id # "")
                 /\ song.id = IF id # "" THEN Str(id) ELSE Str(TempId)
\* a list of null and a record without name, artist, album, cover or identity
\* was normalized into one Song of placeholders
C27_NullDroppedBareRecordKept ==
    /\ applied.fn = "normalizeSongs"
    /\ applied.sample.list = Arr(<<JsNull, Obj(EmptyMap)>>)
    /\ Len(applied.out) = 1
    /\ applied.out[1].name = Str("Unknown Song")
    /\ applied.out[1].artist = Str("Unknown Artist")
    /\ applied.out[1].album = Str("") /\ applied.out[1].pic = Str("")
    /\ applied.out[1].id = Str(TempId) /\ ~applied.out[1].isValidId

\* C28: unparsable persisted or imported JSON raises nothing and counts as
\* absent: every key read at start-up takes its default, and importData
\* returns false and leaves favorites and playlists as they were
Unparsable(item) == item.t = "string" /\ item.s \in Malformed
C28_MalformedDataIsAbsent ==
    /\ applied.fn # "none" => ~applied.threw
    /\ applied.fn = "getLocal" /\ Unparsable(applied.item)
        => applied.out = PlayerKeys[applied.key]
    /\ applied.fn = "searchHistory" /\ Unparsable(applied.item)
        => applied.out = Arr(<<>>)
    /\ applied.fn = "loadLibrary" /\ Unparsable(applied.item)
        => applied.out.favorites = Arr(<<>>)
    /\ applied.fn = "loadLibrary" /\ Unparsable(applied.item2)
        => applied.out.playlists = Arr(<<>>)
    /\ applied.fn = "importData" /\ Unparsable(applied.item)
        => ~applied.out.ret /\ applied.out.lib = applied.before

\* C29: executeMethod asks its proxies one after the other: the request to
\* proxy i+1 exists only once the attempt at proxy i has ended in a network
\* error, an unparsable body or garbage; the requests go to the proxies of the
\* list in list order, each at most once; after an accepted payload there is
\* no further request
FailedAttempt == {"neterr", "unparsable", "garbage"}
C29_ProxiesTriedInTurn ==
    ExecRequests # <<>> =>
        LET list == ProxyList(ExecRequests[1].stored)
        IN /\ Len(ExecRequests) <= Len(list)
           /\ \A i \in DOMAIN ExecRequests : ExecRequests[i].via = list[i]
           /\ \A i, j \in DOMAIN ExecRequests : i # j => ExecRequests[i].via # ExecRequests[j].via
           /\ Len(attempts) \in {Len(ExecRequests) - 1, Len(ExecRequests)}
           /\ \A i \in DOMAIN attempts :
                 /\ attempts[i].proxy = ExecRequests[i].via
                 /\ i < Len(ExecRequests) => attempts[i].outcome \in FailedAttempt
                 /\ attempts[i].outcome = "ok" => i = Len(ExecRequests)
\* the first proxy's body was unparsable, the second proxy was asked and its
\* payload accepted
C29_SecondProxyAfterFirstFailed ==
    /\ Len(ExecRequests) = 2 /\ Len(attempts) = 2
    /\ attempts[1].outcome = "unparsable" /\ attempts[2].outcome = "ok"
    /\ ExecRequests[1].via = DEFAULT_PROXIES[1] /\ ExecRequests[2].via = DEFAULT_PROXIES[2]

\* C30: getLyrics and parseSongFull ask the provider's lyric endpoint only
\* once the primary parse path has ended without lyric text; when the primary
\* parse brought lyric text, no lyric request is sent and that text is
\* returned
LyricFns == {"getLyrics", "parseSongFull"}
C30_FallbackOnlyAfterPrimary ==
    \A c \in Slots :
        calls[c].fn \in LyricFns =>
            /\ "lyric" \in calls[c].sent
                => calls[c].pc \in {"lyrics", "done"} /\ calls[c].item.lrc = ""
            /\ calls[c].item.lrc # ""
                => /\ "lyric" \notin calls[c].sent
                   /\ calls[c].pc = "done"
                   /\ calls[c].result.kind = "value"
                   /\ calls[c].result.lrc = calls[c].item.lrc
\* a getLyrics call whose parse brought a track without lyric text has asked
\* the lyric endpoint afterwards and returned its text
C30_FallbackAfterParseWithoutText ==
    \E c \in Slots :
        /\ calls[c].fn = "getLyrics" /\ calls[c].pc = "done"
        /\ calls[c].item.url # "" /\ calls[c].item.lrc = ""
        /\ calls[c].sent = {"/v1/parse", "lyric"}
        /\ calls[c].result.lrc = LrcString

\* C31: when the descriptor's transform throws or gives a falsy value, the
\* turn returns the unwrapped payload of that response as it is; it does not
\* go on to the next proxy and does not return null
TransformFailed(tr) == tr.threw \/ tr.value \in Falsy
C31_FailedTransformReturnsRaw ==
    (applied.fn = "execTurn" /\ applied.hasTransform /\ applied.raw.usable
       /\ TransformFailed(applied.tr))
        => applied.out = [kind |-> "return", value |-> applied.raw.data]
\* a transform threw on a search payload and the payload was returned
C31_ThrowReturnedRaw ==
    /\ applied.fn = "execTurn" /\ applied.hasTransform /\ applied.tr.threw
    /\ Truthy(GetPath(applied.raw.data, <<"result", "songs">>))
    /\ applied.out.kind = "return" /\ applied.out.value = applied.raw.data

\* C38: the cover backfill keeps the length and order of the transformed
\* list and every field but pic, and a track that had a cover keeps it
TransformedList ==
    /\ applied.fn = "execTurn" /\ applied.hasTransform /\ applied.raw.usable
    /\ ~TransformFailed(applied.tr) /\ applied.tr.value.t = "array"
WithoutPic(item) == [k \in DOMAIN item.f \ {"pic"} |-> item.f[k]]
C38_BackfillOnlyFillsMissing ==
    TransformedList =>
        /\ applied.out.kind = "return" /\ applied.out.value.t = "array"
        /\ Len(applied.out.value.items) = Len(applied.tr.value.items)
        /\ \A i \in DOMAIN applied.tr.value.items :
              LET before == applied.tr.value.items[i]
                  after == applied.out.value.items[i]
              IN /\ WithoutPic(after) = WithoutPic(before)
                 /\ Truthy(Get(before, "pic")) => after = before

\* C32: a body goes with the request only when the descriptor's method is
\* neither GET nor HEAD; the body field of a GET or HEAD descriptor does not
\* make the attempts fail
RequestsBuilt == applied.fn = "sendRequests"
C32_NoBodyOnGetOrHead ==
    (RequestsBuilt /\ applied.config.method \in {"GET", "HEAD"})
        => /\ applied.out.opts.body = Undef
           /\ applied.out.failed = 0 /\ applied.out.result = "data"

\* C33 as stated: no header of the denylist, in any case, is in the request,
\* and every other header of the descriptor is in it with its value
Denied(name) == toLowerCase(name) \in FORBIDDEN_HEADERS
C33_DeniedStrippedOthersUnchanged ==
    RequestsBuilt =>
        /\ \A n \in DOMAIN applied.out.opts.headers : ~Denied(n)
        /\ \A n \in DOMAIN applied.config.headers :
              ~Denied(n) => /\ n \in DOMAIN applied.out.opts.headers
                            /\ applied.out.opts.headers[n] = applied.config.headers[n]
\* C33: no header of the denylist, in any case, is in the request; every
\* other header of the descriptor is in it with its value, but for an empty
\* Content-Type next to a body, which becomes application/json; nothing else
\* is added but that Content-Type
C33_DeniedStrippedOthersKept ==
    RequestsBuilt =>
        LET sent == applied.out.opts.headers
            given == applied.config.headers
            defaulted == applied.out.opts.body # Undef
                         /\ ("Content-Type" \notin DOMAIN given \/ given["Content-Type"] = "")
        IN /\ \A n \in DOMAIN sent : ~Denied(n)
           /\ \A n \in DOMAIN given :
                 (~Denied(n) /\ ~(n = "Content-Type" /\ defaulted))
                    => n \in DOMAIN sent /\ sent[n] = given[n]
           /\ \A n \in DOMAIN sent :
                 n \notin DOMAIN given => n = "Content-Type" /\ defaulted
           /\ defaulted => sent["Content-Type"] = "application/json"
\* a POST descriptor with User-Agent and X-Token was sent with X-Token and
\* the Content-Type of its body
C33_ForbiddenDroppedCustomKept ==
    /\ RequestsBuilt /\ applied.config.method = "POST"
    /\ DOMAIN applied.config.headers = {"User-Agent", "X-Token"}
    /\ DOMAIN applied.out.opts.headers = {"X-Token", "Content-Type"}
    /\ Len(applied.out.requests) = 1

\* C34: whenever no resolution is under way and the element has a src, that
\* src is the stream of currentSong
C34_LoadedSrcIsCurrentSong ==
    (pending = EmptyBag /\ HasSrc(audio))
        => audio.src.source = currentSong.source /\ audio.src.id = currentSong.id

\* C35: once no resolution is under way, and the URL of the latest request
\* for the song has come, the src the element holds is the one of that
\* request's quality, whatever the order in which the results came
C35_LatestQualityLoaded ==
    (pending = EmptyBag /\ HasSrc(audio) /\ requested.got
       /\ audio.src.source = requested.song.source /\ audio.src.id = requested.song.id)
        => audio.src.q = requested.q

\* the queue entry after song c, the first entry after the last one
EntryAfter(q, c) ==
    LET at == {i \in DOMAIN q : SameSong(q[i], c)}
        i == CHOOSE k \in at : \A j \in at : k <= j
    IN IF at = {} \/ i = Len(q) THEN q[1] ELSE q[i + 1]

\* C36: after a natural end in sequence or shuffle mode with a non-empty
\* queue the player is resolving or playing a queue entry (in sequence mode
\* the entry after the one that ended) and is not paused, a queue of one song
\* included; in loop mode a natural end starts no resolution and keeps
\* currentSong, and a forced next moves to the entry after the current one
C36_NaturalEndKeepsPlaying ==
    /\ (ev.kind = "ended" /\ ev.name \in {"sequence", "shuffle"} /\ ev.before # <<>>)
         => /\ isLoading \/ isPlaying
            /\ \E i \in DOMAIN ev.before : SameSong(currentSong, ev.before[i])
            /\ ev.name = "sequence" => SameSong(currentSong, EntryAfter(ev.before, ev.song))
    /\ (ev.kind = "ended" /\ ev.name = "loop" /\ ev.before # <<>>)
         => ev.issued.n = 0 /\ currentSong = ev.song /\ isPlaying
    /\ (ev.kind = "next" /\ ev.name = "loop" /\ ev.before # <<>>)
         => SameSong(currentSong, EntryAfter(ev.before, ev.song))

\* C37: no response of a request made for a source other than the active
\* one is written to topLists or featuredSongs, whether fetchLists or
\* handleTopListClick made the request; once no request for the active
\* source is under way, the charts and songs shown are those of that source
C37_NoStaleSourceWritten ==
    /\ ~home.wrote.stale
    /\ (home.mounted /\ \A r \in home.inflight : r.source # home.activeSource)
         => /\ \A k \in DOMAIN home.topLists :
                  home.topLists[k].source = home.activeSource
            /\ home.featuredSongs.source \in {"", home.activeSource}

\* C39: when no proxy was stored and the user has typed none, saving the
\* settings form leaves the proxy chain whole: every proxy loop entered
\* afterwards runs over all the default proxies
C39_SaveKeepsDefaultChain ==
    (settings.storedAtStart = "" /\ ~settings.typedProxy /\ settings.saves > 0
       /\ op.pc = "loop")
        => op.proxies = DEFAULT_PROXIES

EdgeCall == applied.fn = "onRequest"

\* C40: the edge function makes an upstream request only for a url parameter
\* that parses and whose hostname is an allow-listed host or a subdomain of
\* one; it answers a preflight with 204, a missing or invalid parameter with
\* 400 and any other host with 403, each time without an upstream request
C40_ForwardsOnlyAllowedHosts ==
    EdgeCall =>
        /\ applied.out.forwarded # NoForward => applied.target.kind = "allowed"
        /\ applied.method = "OPTIONS"
             => applied.out = EdgeResponse(204, NoForward)
        /\ (applied.method # "OPTIONS" /\ applied.target.kind \in {"missing", "invalid"})
             => applied.out = EdgeResponse(400, NoForward)
        /\ (applied.method # "OPTIONS" /\ applied.target.kind = "other")
             => applied.out = EdgeResponse(403, NoForward)

\* a POST for a host whose name only ends like an allow-listed one is refused
C40_LookalikeHostRefused ==
    /\ EdgeCall /\ applied.method = "POST"
    /\ applied.target.url = Str("https://evilkuwo.cn/api")
    /\ applied.out.status = 403 /\ applied.out.forwarded = NoForward
====
